---- MODULE Spec2Model ----
\* Model of the OBIS frontmatter template engine (src/bin/PyObis/ObisDatabase.py):
\* rule loading, placeholder substitution, rename resolution, reconciliation,
\* the document processor and the tree walker.
EXTENDS Integers, Sequences, FiniteSets, TLC

VARIABLES
    template,     \* the Rule Set: ordered mapping, sequence of [k, v]; k = key split at "/"
    settings,     \* the Settings record
    has_birthtime,\* platform: os.stat() offers st_birthtime
    root,         \* run root (exec_base): sequence of directory names from the filesystem root
    files,        \* the .md documents under root: path -> [text, mtime, birth]
    today,        \* calendar day of the wall clock
    pc,           \* "idle" | "walk" | "raised" | "exit"
    pending,      \* documents rglob has not yet yielded in the running walk
    total,        \* run(): total
    changed,      \* run(): changed
    runs,         \* number of runs started
    last,         \* what the latest process_md call saw and did
    ini,          \* the configuration candidates in root: file name -> entry
    exited,       \* how the latest process ended: [status, stderr]
    log           \* per document, what the latest walk did with it so far: a sequence of
                  \* [report: "updated" | "unchanged" (the line printed) | "raised" (no
                  \* line), wrote: the file was written]

vars == <<template, settings, has_birthtime, root, files, today, pc, pending,
          total, changed, runs, last, ini, exited, log>>

\* ---------------------------------------------------------------- bounds
MaxRuns == 2
MaxDay == 1

\* ---------------------------------------------------------------- values
\* Every YAML value has the same record shape so that any two can be compared:
\* t = type tag, s = the tokens of a string, c = the children of a mapping or list.
Str(toks) == [t |-> "str", s |-> toks, c |-> <<>>]
Map(entries) == [t |-> "map", s |-> <<>>, c |-> entries]
List(items) == [t |-> "list", s |-> <<>>, c |-> [i \in 1..Len(items) |-> [k |-> <<>>, v |-> items[i]]]]
Int7 == [t |-> "int", s |-> <<"7">>, c |-> <<>>]
BoolTrue == [t |-> "bool", s |-> <<"true">>, c |-> <<>>]
NoneVal == [t |-> "None", s |-> <<>>, c |-> <<>>]
KEEP_EXISTING == [t |-> "KEEP", s |-> <<>>, c |-> <<>>]
EmptyStr_null == NoneVal
EmptyStr == Str(<<>>)

SENTINEL_EMPTY == <<"=leer=">>
KEEP_TOKEN == <<"%wert%">>
FRONTMATTER_DELIM == "delim"

\* %folderN% and %rootN%: the tokens the two regular expressions match, with int(group(1))
FOLDER_N_RE == [tok \in {"%folder0%", "%folder1%", "%folder2%", "%folder3%"} |->
                 CASE tok = "%folder0%" -> 0 [] tok = "%folder1%" -> 1
                   [] tok = "%folder2%" -> 2 [] OTHER -> 3]
ROOT_N_RE == [tok \in {"%root0%", "%root1%", "%root2%", "%root3%"} |->
               CASE tok = "%root0%" -> 0 [] tok = "%root1%" -> 1
                 [] tok = "%root2%" -> 2 [] OTHER -> 3]

\* ---------------------------------------------------------------- dict helpers
\* A Python dict is a sequence of entries [k, v] with distinct keys, in insertion order.
Keys(d) == [i \in 1..Len(d) |-> d[i].k]
KeySet(d) == {d[i].k : i \in 1..Len(d)}
HasKey(d, k) == \E i \in 1..Len(d) : d[i].k = k
IndexOf(d, k) == CHOOSE i \in 1..Len(d) : d[i].k = k
Get(d, k) == d[IndexOf(d, k)].v
\* d[k] = v where an existing key moves to the end
DictSet_moves_to_end(d, k, v) ==
    SelectSeq(d, LAMBDA e : e.k # k) \o <<[k |-> k, v |-> v]>>

\* d[k] = v: an existing key keeps its position, a new key is appended
DictSet(d, k, v) ==
    IF HasKey(d, k)
    THEN [i \in 1..Len(d) |-> IF d[i].k = k THEN [k |-> k, v |-> v] ELSE d[i]]
    ELSE Append(d, [k |-> k, v |-> v])

RECURSIVE SeqFilter(_, _)
\* the entries of d whose key is not in the set drop
SeqFilter(d, drop) ==
    IF d = <<>> THEN <<>>
    ELSE IF Head(d).k \in drop THEN SeqFilter(Tail(d), drop)
         ELSE <<Head(d)>> \o SeqFilter(Tail(d), drop)

IsPrefix(p, q) == Len(p) <= Len(q) /\ SubSeq(q, 1, Len(p)) = p
Reverse(s) == [i \in 1..Len(s) |-> s[Len(s) + 1 - i]]

\* ---------------------------------------------------------------- paths
\* A path is the sequence of directory names from the filesystem root; a document is
\* [dirs |-> the path of its parent directory, stem |-> its file name without ".md"].

\* compute_folder_levels_up: parent names from the file upwards ("/" has the empty name, dropped)
compute_folder_levels_up(md_path) == Reverse(md_path.dirs)

\* compute_root_parts_down: md_parent relative to base; [] when md_parent is not under base
compute_root_parts_down(base, md_parent) ==
    IF IsPrefix(base, md_parent)
    THEN SubSeq(md_parent, Len(base) + 1, Len(md_parent))
    ELSE <<>>

\* Path.name: the last component, "" for the filesystem root
PathName(p) == IF p = <<>> THEN "" ELSE p[Len(p)]
\* Path.parent: the filesystem root is its own parent
PathParent(p) == IF p = <<>> THEN <<>> ELSE SubSeq(p, 1, Len(p) - 1)

\* ---------------------------------------------------------------- placeholders
ReplaceTok(s, tok, by) == [i \in 1..Len(s) |-> IF s[i] = tok THEN by ELSE s[i]]
\* concatenation swallows an empty replacement
DropEmpty(s) == SelectSeq(s, LAMBDA x : x # "")

\* %folderN% out of range read as the topmost level instead of the nearest
repl_up_falls_back_to_top(tok, folder_levels_up) ==
    LET idx == FOLDER_N_RE[tok] IN
    IF folder_levels_up = <<>> THEN ""
    ELSE IF idx < Len(folder_levels_up) THEN folder_levels_up[idx + 1]
         ELSE folder_levels_up[Len(folder_levels_up)]

repl_up(tok, folder_levels_up) ==
    LET idx == FOLDER_N_RE[tok] IN
    IF folder_levels_up = <<>> THEN ""
    ELSE IF idx < Len(folder_levels_up) THEN folder_levels_up[idx + 1]
         ELSE folder_levels_up[1]

\* %rootN% read as zero-based, the way %folderN% is
repl_down_zero_based(tok, exec_root_name, root_parts_down) ==
    LET idx == ROOT_N_RE[tok] IN
    IF idx = 0 THEN exec_root_name
    ELSE IF root_parts_down = <<>> THEN exec_root_name
    ELSE IF idx < Len(root_parts_down) THEN root_parts_down[idx + 1]
         ELSE exec_root_name

repl_down(tok, exec_root_name, root_parts_down) ==
    LET idx == ROOT_N_RE[tok] IN
    IF idx = 0 THEN exec_root_name
    ELSE IF root_parts_down = <<>> THEN exec_root_name
    ELSE IF idx - 1 < Len(root_parts_down) THEN root_parts_down[idx]
         ELSE exec_root_name

\* _subst_scalar taking a string that contains a sentinel for the sentinel
subst_scalar_substring(val, ctx) ==
    IF \E i \in 1..Len(val) : val[i] = SENTINEL_EMPTY[1] THEN NoneVal
    ELSE IF \E i \in 1..Len(val) : val[i] = KEEP_TOKEN[1] THEN KEEP_EXISTING
    ELSE Str(DropEmpty(ReplaceTok(val, "%data%", ctx.file_stem)))

\* _subst_scalar: ctx = [exec_root_name, folder_levels_up, root_parts_down, file_date, file_stem]
subst_scalar(val, ctx) ==
    IF val = SENTINEL_EMPTY THEN NoneVal
    ELSE IF val = KEEP_TOKEN THEN KEEP_EXISTING
    ELSE
      LET o1 == ReplaceTok(ReplaceTok(val, "%datum%", ctx.file_date), "%date%", ctx.file_date)
          o2 == ReplaceTok(o1, "%data%", ctx.file_stem)
          o3 == ReplaceTok(o2, "%folder%", ctx.exec_root_name)
          o4 == ReplaceTok(o3, "%root0%", ctx.exec_root_name)
          o5 == [i \in 1..Len(o4) |->
                   IF o4[i] \in DOMAIN FOLDER_N_RE
                   THEN repl_up(o4[i], ctx.folder_levels_up) ELSE o4[i]]
          o6 == [i \in 1..Len(o5) |->
                   IF o5[i] \in DOMAIN ROOT_N_RE
                   THEN repl_down(o5[i], ctx.exec_root_name, ctx.root_parts_down) ELSE o5[i]]
      IN Str(DropEmpty(o6))

\* apply_template lines 308-313 without the test for the marker
KeptInList_marker_stays(new_item) == new_item # NoneVal

\* apply_template lines 308-313: the element is appended to out_list
KeptInList(new_item) == new_item # NoneVal /\ new_item # KEEP_EXISTING

RECURSIVE apply_template(_, _)
apply_template(tv, ctx) ==
    CASE tv.t = "map" ->
           Map([i \in 1..Len(tv.c) |->
                  LET new_v == apply_template(tv.c[i].v, ctx) IN
                  [k |-> tv.c[i].k, v |-> IF new_v = NoneVal THEN EmptyStr ELSE new_v]])
      [] tv.t = "list" ->
           LET items == [i \in 1..Len(tv.c) |-> [k |-> <<>>, v |-> apply_template(tv.c[i].v, ctx)]]
           IN [t |-> "list", s |-> <<>>,
               c |-> SelectSeq(items, LAMBDA e : KeptInList(e.v))]
      [] tv.t = "str" -> subst_scalar(tv.s, ctx)
      [] OTHER -> tv

\* ---------------------------------------------------------------- renames and reconciliation
RECURSIVE ResolveRenamesOut_prefers_new(_, _, _)
\* resolve_renames looking up NEW before OLD
ResolveRenamesOut_prefers_new(applied, existing, out) ==
    IF applied = <<>> THEN out
    ELSE
      LET k == Head(applied).k
          v == Head(applied).v
          src == <<Head(k)>>
          dst == Tail(k)
          out2 == IF Len(k) > 1
                  THEN IF v = KEEP_EXISTING
                       THEN IF HasKey(existing, dst) THEN DictSet(out, dst, Get(existing, dst))
                            ELSE IF HasKey(existing, src) THEN DictSet(out, dst, Get(existing, src))
                            ELSE out
                       ELSE DictSet(out, dst, v)
                  ELSE DictSet(out, k, v)
      IN ResolveRenamesOut_prefers_new(Tail(applied), existing, out2)

RECURSIVE ResolveRenamesOut(_, _, _)
\* the loop of resolve_renames over the entries of applied, out being the dict built so far
ResolveRenamesOut(applied, existing, out) ==
    IF applied = <<>> THEN out
    ELSE
      LET k == Head(applied).k
          v == Head(applied).v
          src == <<Head(k)>>
          dst == Tail(k)
          out2 == IF Len(k) > 1
                  THEN IF v = KEEP_EXISTING
                       THEN IF HasKey(existing, src) THEN DictSet(out, dst, Get(existing, src))
                            ELSE IF HasKey(existing, dst) THEN DictSet(out, dst, Get(existing, dst))
                            ELSE out
                       ELSE DictSet(out, dst, v)
                  ELSE DictSet(out, k, v)
      IN ResolveRenamesOut(Tail(applied), existing, out2)

DropSources(applied) == {<<Head(applied[i].k)>> : i \in {j \in 1..Len(applied) : Len(applied[j].k) > 1}}

\* resolve_renames: (out, drop_sources)
resolve_renames(applied, existing) ==
    [out |-> ResolveRenamesOut(applied, existing, <<>>), drop_sources |-> DropSources(applied)]

\* fnmatch.fnmatch on field names and directory names: literal patterns, "*", and "<c>*"
GlobPrefix == [pat \in {"D*", ".a*"} |-> IF pat = "D*" THEN {"D", "D2"} ELSE {".archive"}]
fnmatch(name, pat) ==
    \/ pat = name
    \/ pat = "*"
    \/ pat \in DOMAIN GlobPrefix /\ name \in GlobPrefix[pat]

should_keep_extra_key_first_only(key, keep_patterns) ==
    keep_patterns # <<>> /\ Len(key) = 1 /\ fnmatch(key[1], keep_patterns[1])

\* a field name is its segments joined by "/": only "*" crosses a "/"
should_keep_extra_key(key, keep_patterns) ==
    \E i \in 1..Len(keep_patterns) :
        IF Len(key) = 1 THEN fnmatch(key[1], keep_patterns[i]) ELSE keep_patterns[i] = "*"

RECURSIVE BuildStep1_defaults_empty(_, _, _)
BuildStep1_defaults_empty(applied, existing, result) ==
    IF applied = <<>> THEN result
    ELSE
      LET k == Head(applied).k
          v == Head(applied).v
          r2 == IF v = KEEP_EXISTING
                THEN IF HasKey(existing, k) THEN DictSet(result, k, Get(existing, k))
                     ELSE DictSet(result, k, EmptyStr)
                ELSE DictSet(result, k, v)
      IN BuildStep1_defaults_empty(Tail(applied), existing, r2)

RECURSIVE BuildStep1(_, _, _)
BuildStep1(applied, existing, result) ==
    IF applied = <<>> THEN result
    ELSE
      LET k == Head(applied).k
          v == Head(applied).v
          r2 == IF v = KEEP_EXISTING
                THEN IF HasKey(existing, k) THEN DictSet(result, k, Get(existing, k)) ELSE result
                ELSE DictSet(result, k, v)
      IN BuildStep1(Tail(applied), existing, r2)

RECURSIVE BuildStep2_never_merges(_, _, _, _)
BuildStep2_never_merges(existing, result, key_mode, keep_extra) ==
    IF existing = <<>> THEN result
    ELSE
      LET k == Head(existing).k
          v == Head(existing).v
          take == keep_extra # <<>> /\ ~HasKey(result, k) /\ should_keep_extra_key(k, keep_extra)
      IN BuildStep2_never_merges(Tail(existing), IF take THEN DictSet(result, k, v) ELSE result,
                                 key_mode, keep_extra)

RECURSIVE BuildStep2(_, _, _, _)
BuildStep2(existing, result, key_mode, keep_extra) ==
    IF existing = <<>> THEN result
    ELSE
      LET k == Head(existing).k
          v == Head(existing).v
          take == IF key_mode = "merge" THEN ~HasKey(result, k)
                  ELSE keep_extra # <<>> /\ ~HasKey(result, k) /\ should_keep_extra_key(k, keep_extra)
      IN BuildStep2(Tail(existing), IF take THEN DictSet(result, k, v) ELSE result,
                    key_mode, keep_extra)

build_result(existing, applied, key_mode, keep_extra) ==
    BuildStep2(existing, BuildStep1(applied, existing, <<>>), key_mode, keep_extra)

\* ---------------------------------------------------------------- document text
\* A file's text is its sequence of lines. A line is the FRONTMATTER_DELIM line, the
\* "..." line, an empty line, a "key: value" line of block YAML, the "{}" line
\* yaml.safe_dump writes for an empty mapping, a line of prose, or a line no YAML parser accepts.
Line(kind, k, v) == [kind |-> kind, k |-> k, v |-> v]
DelimLine == Line(FRONTMATTER_DELIM, <<>>, NoneVal)
DotsLine == Line("dots", <<>>, NoneVal)
BlankLine == Line("blank", <<>>, NoneVal)
EmptyMapLine == Line("empty_map", <<>>, NoneVal)
BadLine == Line("bad", <<>>, NoneVal)
TextLine(n) == Line("text", <<n>>, NoneVal)
KvLine(k, v) == Line("kv", k, v)
\* a line of prose that ends in "\r\n" on disk, and a line of spaces
CrlfLine(n) == Line("text_crlf", <<n>>, NoneVal)
WsLine == Line("ws", <<>>, NoneVal)

\* read_text: Path.read_text opens the file with universal newlines, "\r\n" becomes "\n"
read_text(content) ==
    [i \in 1..Len(content) |->
       IF content[i].kind = "text_crlf" THEN TextLine(content[i].k[1]) ELSE content[i]]
\* "key: 2024-13-45": a plain scalar the timestamp resolver matches and datetime.date rejects
BadDateLine(k) == Line("kv_bad_date", k, NoneVal)

RECURSIVE ConstructMapping(_, _)
\* PyYAML's mapping constructor: a repeated key keeps its first position and its last value
ConstructMapping(lines, out) ==
    IF lines = <<>> THEN out
    ELSE ConstructMapping(Tail(lines), DictSet(out, Head(lines).k, Head(lines).v))

\* yaml.safe_load(fm_text) or {}, then {} unless a dict; a YAMLError gives {} as well
safe_load_mapping(fm_lines) ==
    LET nonblank == SelectSeq(fm_lines, LAMBDA l : l.kind \notin {"blank", "ws"}) IN
    IF nonblank # <<>> /\ \A i \in 1..Len(nonblank) : nonblank[i].kind = "kv"
    THEN ConstructMapping(nonblank, <<>>)
    ELSE <<>>

\* yaml.safe_load composes the whole block first (a syntax error is a YAMLError) and
\* constructs the values afterwards: there an impossible date is a ValueError
safe_load_raises_ValueError(fm_lines) ==
    LET nonblank == SelectSeq(fm_lines, LAMBDA l : l.kind \notin {"blank", "ws"}) IN
    /\ \A i \in 1..Len(nonblank) : nonblank[i].kind \in {"kv", "kv_bad_date"}
    /\ \E i \in 1..Len(nonblank) : nonblank[i].kind = "kv_bad_date"

IsTerminator(l) == l.kind \in {FRONTMATTER_DELIM, "dots"}

\* split_frontmatter lets an exception through that is not a yaml.YAMLError
split_frontmatter_raises(text) ==
    /\ text # <<>>
    /\ text[1].kind = FRONTMATTER_DELIM
    /\ \E e \in 2..Len(text) :
         /\ IsTerminator(text[e])
         /\ \A j \in 2..(e - 1) : ~IsTerminator(text[j])
         /\ safe_load_raises_ValueError(SubSeq(text, 2, e - 1))

\* split_frontmatter: [data, body]
split_frontmatter(text) ==
    IF text = <<>> \/ text[1].kind # FRONTMATTER_DELIM
    THEN [data |-> <<>>, body |-> text]
    ELSE
      LET ends == {i \in 2..Len(text) : IsTerminator(text[i])} IN
      IF ends = {}
      THEN [data |-> <<>>, body |-> text]
      ELSE
        LET end_idx == CHOOSE i \in ends : \A j \in ends : i <= j IN
        [data |-> safe_load_mapping(SubSeq(text, 2, end_idx - 1)),
         body |-> SubSeq(text, end_idx + 1, Len(text))]

RECURSIVE HasMarker(_)
\* a _KEEP object somewhere in a value: yaml.safe_dump has no representer for it
HasMarker(v) ==
    \/ v = KEEP_EXISTING
    \/ \E i \in 1..Len(v.c) : HasMarker(v.c[i].v)

Dumpable(data) == \A i \in 1..Len(data) : ~HasMarker(data[i].v)

\* dump_frontmatter: "---\n" payload "---\n\n"
dump_frontmatter(data) ==
    <<DelimLine>>
    \o (IF data = <<>> THEN <<EmptyMapLine>>
        ELSE [i \in 1..Len(data) |-> KvLine(data[i].k, data[i].v)])
    \o <<DelimLine, BlankLine>>

RECURSIVE lstrip_whitespace(_)
\* body.lstrip(): lines of spaces go as well
lstrip_whitespace(body) ==
    IF body # <<>> /\ Head(body).kind \in {"blank", "ws"} THEN lstrip_whitespace(Tail(body))
    ELSE body

RECURSIVE lstrip_newlines(_)
\* body.lstrip("\n")
lstrip_newlines(body) ==
    IF body # <<>> /\ Head(body) = BlankLine THEN lstrip_newlines(Tail(body)) ELSE body

\* datetime.date.fromtimestamp(ts).isoformat() for the days of the model
IsoDate == <<"2024-01-01", "2024-01-02", "2024-01-03", "2024-01-04">>

\* get_creation_date: st_birthtime where the platform has it, else st_mtime
get_creation_date(f) == IF has_birthtime THEN IsoDate[f.birth + 1] ELSE IsoDate[f.mtime + 1]

\* ---------------------------------------------------------------- exclusion, selection, anchor
NoPath == <<"<None>">>

\* is_excluded: the names of all parents of the file, up to the filesystem root ("")
is_excluded(md_path, exclude_folders) ==
    LET parts == {md_path.dirs[i] : i \in 1..Len(md_path.dirs)} \cup {""} IN
    \E i \in 1..Len(exclude_folders) : \E name \in parts : fnmatch(name, exclude_folders[i])

RECURSIVE nearest_named_ancestor(_, _)
nearest_named_ancestor(dir_path, names) ==
    IF PathName(dir_path) \in names THEN dir_path
    ELSE IF dir_path = <<>> THEN NoPath
    ELSE nearest_named_ancestor(PathParent(dir_path), names)

\* the directories of the tree: every directory on the way to a document, and the empty ones
EmptyDirs == {<<"home", "R", "Sel", ".archive">>}
Prefixes(p) == {SubSeq(p, 1, i) : i \in 1..Len(p)}
AllDirs == UNION {Prefixes(md.dirs) : md \in DOMAIN files} \cup UNION {Prefixes(d) : d \in EmptyDirs}

has_excluded_child_folder(dir_path, exclude_folders) ==
    LET child_dirs == {PathName(q) : q \in {d \in AllDirs : PathParent(d) = dir_path}} IN
    \E i \in 1..Len(exclude_folders) : \E name \in child_dirs : fnmatch(name, exclude_folders[i])

RECURSIVE FindAnchorFrom_no_stop(_, _, _)
\* the upward search without the stop at the run root's parent
FindAnchorFrom_no_stop(ancestor, stop, anchor_name) ==
    IF PathName(ancestor) = anchor_name THEN ancestor
    ELSE IF ancestor = <<>> THEN NoPath
    ELSE FindAnchorFrom_no_stop(PathParent(ancestor), stop, anchor_name)

RECURSIVE FindAnchorFrom(_, _, _)
\* the loop of find_anchor_by_name over [p, *p.parents]
FindAnchorFrom(ancestor, stop, anchor_name) ==
    IF ancestor = stop THEN NoPath
    ELSE IF PathName(ancestor) = anchor_name THEN ancestor
    ELSE IF ancestor = <<>> THEN NoPath
    ELSE FindAnchorFrom(PathParent(ancestor), stop, anchor_name)

find_anchor_by_name(exec_base, md_path, anchor_name) ==
    FindAnchorFrom(md_path.dirs, PathParent(exec_base), anchor_name)

\* ---------------------------------------------------------------- process_md
\* the anchor of a document: NoPath when base_root is unset or no ancestor carries the name
Anchor(md_path) ==
    IF settings.base_root # ""
    THEN find_anchor_by_name(root, md_path, settings.base_root)
    ELSE NoPath

\* process_md line 454: the document is outside the anchor's scope
ScopeSkip(md_path) ==
    settings.base_root # "" /\ settings.scope_under_base_root /\ Anchor(md_path) = NoPath

\* process_md lines 451-457: base
Base(md_path) == IF Anchor(md_path) # NoPath THEN Anchor(md_path) ELSE root

\* process_md lines 460-464: the path context handed to apply_template
PathContext(md_path, f) ==
    [exec_root_name |-> PathName(Base(md_path)),
     folder_levels_up |-> compute_folder_levels_up(md_path),
     root_parts_down |-> compute_root_parts_down(Base(md_path), md_path.dirs),
     file_date |-> get_creation_date(f),
     file_stem |-> md_path.stem]

\* process_md lines 466-475: applied
Applied(md_path, f) == apply_template(Map(template), PathContext(md_path, f)).c

\* process_md lines 480-489: final_data
FinalData(applied, existing) ==
    LET rr == resolve_renames(applied, existing)
        existing2 == SeqFilter(existing, rr.drop_sources)
    IN build_result(existing2, rr.out, settings.key_mode, settings.keep_extra_keys)

\* process_md line 491: new_content
NewContent(final_data, body) == dump_frontmatter(final_data) \o lstrip_newlines(body)

MustWrite_always(new_content, text) == TRUE

\* process_md line 492: the write is needed
MustWrite(new_content, text) == new_content # text

\* process_md as a whole: what it computes, returns ("True", "False", or "raised" when
\* split_frontmatter lets a ValueError through or yaml.safe_dump meets a _KEEP object)
\* and whether it writes
process_md(md_path, f) ==
    LET text == read_text(f.text)
        sf == split_frontmatter(text)
        applied == Applied(md_path, f)
        final_data == FinalData(applied, sf.data)
        new_content == NewContent(final_data, sf.body)
    IN IF split_frontmatter_raises(text)
       THEN [stage |-> "raised", ret |-> "raised", wrote |-> FALSE, applied |-> <<>>,
             final_data |-> <<>>, new_content |-> <<>>]
       ELSE IF ScopeSkip(md_path)
       THEN [stage |-> "skip", ret |-> "False", wrote |-> FALSE, applied |-> <<>>,
             final_data |-> <<>>, new_content |-> <<>>]
       ELSE IF ~Dumpable(final_data)
       THEN [stage |-> "raised", ret |-> "raised", wrote |-> FALSE, applied |-> applied,
             final_data |-> final_data, new_content |-> <<>>]
       ELSE [stage |-> "built",
             ret |-> IF MustWrite(new_content, text) THEN "True" ELSE "False",
             wrote |-> MustWrite(new_content, text), applied |-> applied,
             final_data |-> final_data, new_content |-> new_content]

\* write_text: the content is replaced and st_mtime becomes now; st_birthtime stays
write_text(f, content) == [text |-> content, mtime |-> today, birth |-> f.birth]

\* ---------------------------------------------------------------- configuration
CONFIG_FILENAMES ==
    <<"ObisDatabase.ini", "ObisDatabase-Timetable.ini", "ObisDatabase-Klausur.ini",
      "ObisDatabase-Skript.ini", "YAML.ini">>

BoolFalse == [t |-> "bool", s |-> <<"false">>, c |-> <<>>]
\* a text for which yaml.safe_load raises a YAMLError
InvalidYaml == [t |-> "invalid", s |-> <<>>, c |-> <<>>]

\* what a candidate path is: nothing, a directory, or a file [tabs: it holds a tab
\* character, doc: what yaml.safe_load makes of its text]
NoFile == [kind |-> "absent", tabs |-> FALSE, doc |-> NoneVal]
DirEntry == [kind |-> "dir", tabs |-> FALSE, doc |-> NoneVal]
IniFile(tabs, doc) == [kind |-> "file", tabs |-> tabs, doc |-> doc]

\* Settings(): the defaults of the dataclass (base_root None is the empty name)
DefaultSettings ==
    [exclude_folders |-> <<".git", "Python", "node_modules", ".obsidian", ".venv", "__pycache__">>,
     key_mode |-> "strict", keep_extra_keys |-> <<>>, base_root |-> "",
     scope_under_base_root |-> FALSE, include_folders_by_name |-> <<>>,
     selective_processing_active |-> FALSE]

\* bool(x)
Truthy(v) ==
    CASE v.t = "None" -> FALSE
      [] v.t = "bool" -> v = BoolTrue
      [] v.t = "int" -> v.s # <<"0">>
      [] v.t = "str" -> v.s # <<>>
      [] v.t \in {"map", "list"} -> v.c # <<>>

\* d.get(k, default)
GetOr(d, k, default) == IF HasKey(d, k) THEN Get(d, k) ELSE default

\* str(x) of a scalar; a string of the model is one token here
PyStr(v) ==
    CASE v.t = "str" /\ v.s = <<>> -> ""
      [] v.t = "str" /\ Len(v.s) = 1 -> v.s[1]
      [] v.t = "None" -> "None"
      [] v.t = "bool" -> IF v = BoolTrue THEN "True" ELSE "False"
      [] v.t = "int" -> v.s[1]

\* str.strip().lower() on the strings the configurations of the model hold
StripLower ==
    [x \in {"strict", "merge", "Merge", " MERGE ", "STRICT ", "loose", " Loose", "",
            "None", "True", "False", "7"} |->
       CASE x \in {"strict", "STRICT "} -> "strict"
         [] x \in {"merge", "Merge", " MERGE "} -> "merge"
         [] x \in {"loose", " Loose"} -> "loose"
         [] x = "None" -> "none"
         [] x = "True" -> "true"
         [] x = "False" -> "false"
         [] OTHER -> x]

\* tuple(x or []): a list gives its elements, a mapping its keys, a string its
\* characters (the tokens of such a string are single characters); int and bool are
\* not iterable (TypeError); the elements of the lists of the model are scalars
TupleOf(v) ==
    CASE ~Truthy(v) -> [raised |-> FALSE, items |-> <<>>]
      [] v.t = "list" -> [raised |-> FALSE, items |-> [i \in 1..Len(v.c) |-> PyStr(v.c[i].v)]]
      [] v.t = "map" -> [raised |-> FALSE, items |-> [i \in 1..Len(v.c) |-> v.c[i].k[1]]]
      [] v.t = "str" -> [raised |-> FALSE, items |-> v.s]
      [] OTHER -> [raised |-> TRUE, items |-> <<>>]

\* Settings.from_cfg: [raised, settings]; cfg is a mapping
from_cfg(cfg) ==
    LET raw == GetOr(cfg.c, <<"_settings">>, Map(<<>>))
        s == IF Truthy(raw) THEN raw ELSE Map(<<>>)
    IN IF s.t # "map"
       THEN [raised |-> TRUE, settings |-> DefaultSettings]
       ELSE
         LET excl == TupleOf(GetOr(s.c, <<"exclude_folders">>, List(<<>>)))
             km == StripLower[PyStr(GetOr(s.c, <<"key_mode">>, Str(<<"strict">>)))]
             keep_extra == TupleOf(GetOr(s.c, <<"keep_extra_keys">>, List(<<>>)))
             base_root == GetOr(s.c, <<"base_root">>, NoneVal)
             include_only == TupleOf(GetOr(s.c, <<"include_folders_by_name">>, List(<<>>)))
         IN [raised |-> excl.raised \/ keep_extra.raised \/ include_only.raised,
             settings |->
               [exclude_folders |-> IF excl.items # <<>> THEN excl.items
                                    ELSE DefaultSettings.exclude_folders,
                key_mode |-> IF km \in {"strict", "merge"} THEN km ELSE "strict",
                keep_extra_keys |-> keep_extra.items,
                base_root |-> IF base_root = NoneVal THEN "" ELSE PyStr(base_root),
                scope_under_base_root |->
                  Truthy(GetOr(s.c, <<"scope_under_base_root">>, BoolFalse)),
                include_folders_by_name |-> include_only.items,
                selective_processing_active |->
                  Truthy(GetOr(s.c, <<"selective_processing_active">>, BoolFalse))]]

\* only the key _settings is taken out of the Rule Set
StartsWithUnderscore_settings_only(k) == k[1] = "_settings"

\* str(k).startswith("_") for the key names of the model
StartsWithUnderscore(k) == k[1] \in {"_settings", "_note"}

\* load_config: [status, ini_name, settings, template]; status "exit2" is sys.exit(2)
\* after a diagnostic, "raised" an exception nothing catches
load_config(dir) ==
    LET found == {i \in 1..Len(CONFIG_FILENAMES) : dir[CONFIG_FILENAMES[i]].kind = "file"}
        none == [status |-> "exit2", ini_name |-> "", settings |-> DefaultSettings,
                 template |-> <<>>]
    IN IF found = {} THEN none
       ELSE
         LET ini_name == CONFIG_FILENAMES[CHOOSE i \in found : \A j \in found : i <= j]
             f == dir[ini_name]
             cfg == IF Truthy(f.doc) THEN f.doc ELSE Map(<<>>)
         IN IF f.tabs \/ f.doc = InvalidYaml
            THEN [none EXCEPT !.ini_name = ini_name]
            ELSE IF cfg.t # "map" \/ from_cfg(cfg).raised
            THEN [none EXCEPT !.status = "raised", !.ini_name = ini_name]
            ELSE [status |-> "ok", ini_name |-> ini_name,
                  settings |-> from_cfg(cfg).settings,
                  template |-> SelectSeq(cfg.c, LAMBDA e : ~StartsWithUnderscore(e.k))]

\* how a process ended
NotExited == [status |-> "none", stderr |-> "none"]
Exit0 == [status |-> "0", stderr |-> "none"]
Exit2 == [status |-> "2", stderr |-> "FEHLER"]
Uncaught == [status |-> "1", stderr |-> "Traceback"]

\* ---------------------------------------------------------------- run
NoDoc == [dirs |-> NoPath, stem |-> ""]
NoCall == [called |-> FALSE, md |-> NoDoc, nth |-> 0, run |-> 0, text |-> <<>>, date |-> "",
           stage |-> "", ret |-> "", wrote |-> FALSE, applied |-> <<>>,
           final_data |-> <<>>, new_content |-> <<>>, changed_before |-> 0, total_before |-> 0]

\* selection whenever the allow-list is non-empty, the flag ignored
use_selection_ignores_flag == settings.include_folders_by_name # <<>>

\* run lines 505-506
use_selection ==
    settings.selective_processing_active /\ settings.include_folders_by_name # <<>>

IncludeNames == {settings.include_folders_by_name[i] : i \in 1..Len(settings.include_folders_by_name)}

\* run lines 509-525: the filters in front of process_md
Filtered(md) ==
    \/ is_excluded(md, settings.exclude_folders)
    \/ /\ use_selection
       /\ \/ nearest_named_ancestor(md.dirs, IncludeNames) = NoPath
          \/ has_excluded_child_folder(nearest_named_ancestor(md.dirs, IncludeNames),
                                       settings.exclude_folders)

\* changed += 1 whatever process_md returned
CountChanged_always(n, ret) == n + 1

\* run lines 528-529: changed after process_md returned or raised
CountChanged(n, ret) == IF ret = "True" THEN n + 1 ELSE n

\* run lines 528-532: the line printed for a document; none when process_md raised
Report(ret) ==
    CASE ret = "True" -> "updated"
      [] ret = "False" -> "unchanged"
      [] OTHER -> "raised"

\* run lines 498-506: a process starts and loads the configuration; it ends there
\* with sys.exit(2) or an uncaught exception, or rglob will yield every .md file
\* under root
RunStart ==
    /\ pc \in {"idle", "raised", "exit"}
    /\ runs < MaxRuns
    /\ runs' = runs + 1
    /\ LET r == load_config(ini) IN
       IF r.status = "ok"
       THEN /\ template' = r.template
            /\ settings' = r.settings
            /\ pc' = "walk"
            /\ pending' = DOMAIN files
            /\ total' = 0
            /\ changed' = 0
            /\ exited' = NotExited
            /\ log' = [md \in DOMAIN files |-> <<>>]
       ELSE /\ pc' = IF r.status = "exit2" THEN "exit" ELSE "raised"
            /\ exited' = IF r.status = "exit2" THEN Exit2 ELSE Uncaught
            /\ UNCHANGED <<template, settings, pending, total, changed, log>>
    /\ UNCHANGED <<has_birthtime, root, files, today, last, ini>>

\* run lines 508-532: one iteration of the loop, process_md included
RunVisit(md) ==
    /\ pc = "walk"
    /\ md \in pending
    /\ pending' = pending \ {md}
    /\ IF Filtered(md)
       THEN UNCHANGED <<files, pc, total, changed, last, exited, log>>
       ELSE
         LET r == process_md(md, files[md]) IN
         /\ total' = total + 1
         /\ changed' = CountChanged(changed, r.ret)
         /\ log' = [log EXCEPT ![md] = Append(@, [report |-> Report(r.ret), wrote |-> r.wrote])]
         /\ pc' = IF r.ret = "raised" THEN "raised" ELSE "walk"
         /\ exited' = IF r.ret = "raised" THEN Uncaught ELSE exited
         /\ files' = IF r.wrote THEN [files EXCEPT ![md] = write_text(@, r.new_content)]
                     ELSE files
         /\ last' = [called |-> TRUE, md |-> md,
                     nth |-> IF last.called /\ last.md = md THEN last.nth + 1 ELSE 1,
                     run |-> runs,
                     text |-> files[md].text, date |-> get_creation_date(files[md]),
                     stage |-> r.stage, ret |-> r.ret, wrote |-> r.wrote,
                     applied |-> r.applied, final_data |-> r.final_data,
                     new_content |-> r.new_content,
                     changed_before |-> changed, total_before |-> total]
    /\ UNCHANGED <<template, settings, has_birthtime, root, today, runs, ini>>

\* run line 534: the walk is over, the summary is printed
RunEnd ==
    /\ pc = "walk"
    /\ pending = {}
    /\ pc' = "idle"
    /\ exited' = Exit0
    /\ UNCHANGED <<template, settings, has_birthtime, root, files, today, pending,
                   total, changed, runs, last, ini, log>>

\* a day passes on the wall clock
Tick ==
    /\ today < MaxDay
    /\ today' = today + 1
    /\ UNCHANGED <<template, settings, has_birthtime, root, files, pc, pending,
                   total, changed, runs, last, ini, exited, log>>

Next == RunStart \/ (\E md \in DOMAIN files : RunVisit(md)) \/ RunEnd \/ Tick

\* ---------------------------------------------------------------- inputs
Root == <<"home", "R">>
DocAB == [dirs |-> <<"home", "R", "a", "b">>, stem |-> "doc"]

KeyModes == {"strict", "merge"}

E(k, v) == [k |-> k, v |-> v]
Wert == Str(KEEP_TOKEN)
Leer == Str(SENTINEL_EMPTY)
Lit(x) == Str(<<x>>)

\* the values the existing metadata of a document carries, one per field name
Old(name) == Str(<<"old", name>>)

\* ordered mappings with distinct keys, of at most n entries drawn from the set entries
RECURSIVE DictsUpTo(_, _)
DictsUpTo(entries, n) ==
    IF n = 0 THEN {<<>>}
    ELSE LET shorter == DictsUpTo(entries, n - 1) IN
         shorter \cup {Append(d, e) : d \in {x \in shorter : Len(x) = n - 1},
                                      e \in entries}

DistinctKeys(d) == \A i, j \in 1..Len(d) : d[i].k = d[j].k => i = j
RuleSets(entries, n) == {d \in DictsUpTo(entries, n) : DistinctKeys(d)}

\* the text of a configuration file that holds the settings s and the Rule Set t
SettingsEntries(s) ==
    <<E(<<"exclude_folders">>, List([i \in 1..Len(s.exclude_folders) |-> Lit(s.exclude_folders[i])])),
      E(<<"key_mode">>, Lit(s.key_mode)),
      E(<<"keep_extra_keys">>, List([i \in 1..Len(s.keep_extra_keys) |-> Lit(s.keep_extra_keys[i])])),
      E(<<"base_root">>, IF s.base_root = "" THEN NoneVal ELSE Lit(s.base_root)),
      E(<<"scope_under_base_root">>, IF s.scope_under_base_root THEN BoolTrue ELSE BoolFalse),
      E(<<"include_folders_by_name">>,
        List([i \in 1..Len(s.include_folders_by_name) |-> Lit(s.include_folders_by_name[i])])),
      E(<<"selective_processing_active">>,
        IF s.selective_processing_active THEN BoolTrue ELSE BoolFalse)>>
ConfigFor(s, t) == Map(<<E(<<"_settings">>, Map(SettingsEntries(s)))>> \o t)

\* root holds the one configuration file ObisDatabase.ini
IniOnly(doc) ==
    [n \in {CONFIG_FILENAMES[i] : i \in 1..Len(CONFIG_FILENAMES)} |->
       IF n = CONFIG_FILENAMES[1] THEN IniFile(FALSE, doc) ELSE NoFile]

\* the state after construction: no process has started yet, root holds a
\* configuration file with one of the Rule Sets and one of the settings
InitWith(templates, settingss, birthtimes, filess) ==
    /\ ini \in {IniOnly(ConfigFor(s, t)) : s \in settingss, t \in templates}
    /\ exited = NotExited
    /\ template = <<>>
    /\ settings = DefaultSettings
    /\ has_birthtime \in birthtimes
    /\ root = Root
    /\ files \in filess
    /\ today = 0
    /\ pc = "idle"
    /\ pending = {}
    /\ total = 0
    /\ changed = 0
    /\ runs = 0
    /\ last = NoCall
    /\ log = [md \in DOMAIN files |-> <<>>]

OneDoc(md, texts) == {[d \in {md} |-> [text |-> t, mtime |-> 0, birth |-> 0]] : t \in texts}

\* ---- documents and Rule Sets of the document-level specification
MaxFields == 2

DocTexts ==
    { <<>>,
      <<TextLine("p")>>,
      <<BlankLine, TextLine("p")>>,
      <<DelimLine, KvLine(<<"A">>, Old("A")), DelimLine, TextLine("p")>>,
      <<DelimLine, KvLine(<<"B">>, Old("B")), KvLine(<<"A">>, Old("A")), DotsLine,
        BlankLine, BlankLine, TextLine("p")>>,
      <<DelimLine, KvLine(<<"A">>, Old("A"))>>,
      <<DelimLine, BadLine, DelimLine, TextLine("p")>>,
      <<DelimLine, TextLine("q"), DelimLine, TextLine("p")>>,
      <<DelimLine, EmptyMapLine, DelimLine, BlankLine, TextLine("p")>>,
      <<DelimLine, KvLine(<<"D">>, Old("D")), KvLine(<<"A">>, Old("A")), DelimLine,
        BlankLine, TextLine("p")>>,
      <<DelimLine, DelimLine, TextLine("p")>>,
      <<TextLine("p"), DelimLine, KvLine(<<"A">>, Old("A"))>> }

DocEntries ==
    { E(<<"A">>, Str(<<"%datum%">>)), E(<<"A">>, Wert), E(<<"A">>, Lit("x")),
      E(<<"A">>, Leer), E(<<"B">>, Lit("x")), E(<<"B">>, Wert),
      E(<<"B">>, Str(<<"%date%", "-", "%data%">>)), E(<<"A", "B">>, Wert) }

DocSettings == {[DefaultSettings EXCEPT !.key_mode = m] : m \in KeyModes}

Init == InitWith(RuleSets(DocEntries, MaxFields), DocSettings, BOOLEAN, OneDoc(DocAB, DocTexts))

Spec == Init /\ [][Next]_vars

\* ---- the same documents under Rule Sets without rename keys
PlainEntries == {e \in DocEntries : Len(e.k) = 1}
InitDates == InitWith(RuleSets(PlainEntries, MaxFields), DocSettings, BOOLEAN, OneDoc(DocAB, DocTexts))
SpecDates == InitDates /\ [][Next]_vars

\* ---- reconciliation: Rule Sets with plain and rename keys against existing metadata
Fm(data) == <<DelimLine>> \o [i \in 1..Len(data) |-> KvLine(data[i], Old(data[i][1]))]
              \o <<DelimLine, BlankLine, TextLine("p")>>

FieldTexts ==
    { <<TextLine("p")>>,
      Fm(<< <<"A">> >>),
      Fm(<< <<"B">>, <<"A">> >>),
      Fm(<< <<"C">>, <<"B">> >>),
      Fm(<< <<"D2">>, <<"A">>, <<"D">> >>),
      Fm(<< <<"D">>, <<"C">>, <<"D2">> >>),
      Fm(<< <<"A">>, <<"B">>, <<"C">>, <<"D">> >>) }

FieldKeys == { <<"A">>, <<"B">>, <<"A", "B">>, <<"C", "A">> }

MapLeer == Map(<<E(<<"s">>, Leer), E(<<"t">>, Lit("y")), E(<<"u">>, Map(<<E(<<"w">>, Leer)>>))>>)
ListLeer == List(<<Lit("x"), Leer, Lit("y"), Leer>>)

FieldEntries ==
    {E(k, v) : k \in FieldKeys, v \in {Wert, Leer, Lit("x")}}
      \cup {E(<<"B">>, MapLeer), E(<<"B">>, ListLeer)}

FieldSettings ==
    { [DefaultSettings EXCEPT !.key_mode = "strict"],
      [DefaultSettings EXCEPT !.key_mode = "strict", !.keep_extra_keys = <<"D*">>],
      [DefaultSettings EXCEPT !.key_mode = "strict", !.keep_extra_keys = <<"B", "*">>],
      [DefaultSettings EXCEPT !.key_mode = "merge"] }

InitFields == InitWith(RuleSets(FieldEntries, MaxFields), FieldSettings, {TRUE},
                       OneDoc(DocAB, FieldTexts))
SpecFields == InitFields /\ [][Next]_vars

\* ---- the same, under Rule Sets made of "%wert%" rename keys only
RenameEntries == {e \in FieldEntries : Len(e.k) > 1 /\ e.v = Wert}
InitRenames == InitWith(RuleSets(RenameEntries, MaxFields), FieldSettings, {TRUE},
                        OneDoc(DocAB, FieldTexts))
SpecRenames == InitRenames /\ [][Next]_vars

\* ---- field order: Rule Sets of up to three entries, two of them naming the same NEW
MaxOrderFields == 3

OrderKeys == { <<"B">>, <<"D">>, <<"A", "B">>, <<"C", "E">> }
OrderEntries == {E(k, v) : k \in OrderKeys, v \in {Wert, Lit("x")}}
OrderSettings ==
    { [DefaultSettings EXCEPT !.key_mode = "strict", !.keep_extra_keys = <<"D*">>],
      [DefaultSettings EXCEPT !.key_mode = "strict", !.keep_extra_keys = <<"B", "*">>],
      [DefaultSettings EXCEPT !.key_mode = "merge"] }

InitOrder == InitWith(RuleSets(OrderEntries, MaxOrderFields), OrderSettings, {TRUE},
                      OneDoc(DocAB, FieldTexts))
SpecOrder == InitOrder /\ [][Next]_vars

\* ---- path placeholders: documents zero to three directories below the run root
PathDocs == {[dirs |-> Root \o d, stem |-> "doc"] :
               d \in {<<>>, <<"a">>, <<"a", "b">>, <<"a", "b", "c">>}}
PathValues ==
    { Str(<<"%root1%", "-", "%root2%">>), Str(<<"%root0%">>), Str(<<"%root3%">>),
      Str(<<"%root2%", "%root0%", "%root1%">>) }
PathEntries == {E(k, v) : k \in {<<"A">>, <<"B">>}, v \in PathValues}
PathSettings ==
    {[DefaultSettings EXCEPT !.base_root = b, !.scope_under_base_root = s] :
       b \in {"", "R", "a", "b", "home"}, s \in BOOLEAN}
PathTexts == { <<TextLine("p")>>, Fm(<< <<"A">> >>) }

InitPaths ==
    InitWith(RuleSets(PathEntries, MaxFields), PathSettings, {TRUE},
             UNION {OneDoc(md, PathTexts) : md \in PathDocs})
SpecPaths == InitPaths /\ [][Next]_vars

\* ---- upward placeholders: run roots "/" and /home/R, documents zero to four
\* directories below the filesystem root
UpRoots == {<<>>, Root}
UpDocs(r) == {[dirs |-> r \o d, stem |-> "doc"] : d \in {<<>>, <<"a", "b">>}}
UpValues ==
    { Str(<<"%folder0%">>), Str(<<"%folder1%">>), Str(<<"%folder3%">>),
      Str(<<"%folder2%", "-", "%folder0%">>) }
UpEntries == {E(k, v) : k \in {<<"A">>, <<"B">>}, v \in UpValues}

InitUp ==
    /\ ini \in {IniOnly(ConfigFor(s, t)) : s \in DocSettings, t \in RuleSets(UpEntries, MaxFields)}
    /\ exited = NotExited
    /\ template = <<>>
    /\ settings = DefaultSettings
    /\ has_birthtime = TRUE
    /\ root \in UpRoots
    /\ files \in UNION {OneDoc(md, PathTexts) : md \in UpDocs(root)}
    /\ today = 0
    /\ pc = "idle"
    /\ pending = {}
    /\ total = 0
    /\ changed = 0
    /\ runs = 0
    /\ last = NoCall
    /\ log = [md \in DOMAIN files |-> <<>>]
SpecUp == InitUp /\ [][Next]_vars

\* ---- configuration loading: what the candidate files of root may be
\* "A: x / _settings: {key_mode: Merge} / B: '%wert%'"
CfgMerge ==
    Map(<<E(<<"A">>, Lit("x")), E(<<"_settings">>, Map(<<E(<<"key_mode">>, Lit("Merge"))>>)),
          E(<<"B">>, Wert)>>)
\* "_note: n / B: y / _settings:"
CfgNote == Map(<<E(<<"_note">>, Lit("n")), E(<<"B">>, Lit("y")), E(<<"_settings">>, NoneVal)>>)
\* "C: z"
CfgPlain == Map(<<E(<<"C">>, Lit("z"))>>)
\* what yaml.safe_load makes of the other texts: "- a", "hello", "7", "", "[]", "''", "{}"
CfgOther == {List(<<Lit("a")>>), Lit("hello"), Int7, NoneVal, List(<<>>), Str(<<>>), Map(<<>>)}

FirstCandidates ==
    {NoFile, DirEntry, IniFile(TRUE, CfgMerge), IniFile(FALSE, InvalidYaml)}
      \cup {IniFile(FALSE, d) : d \in {CfgMerge, CfgNote} \cup CfgOther}
SecondCandidates == {NoFile, IniFile(FALSE, CfgPlain), IniFile(FALSE, List(<<Lit("a")>>))}
LastCandidates == {NoFile, IniFile(FALSE, CfgNote), IniFile(TRUE, CfgPlain)}
Listings ==
    {[n \in {CONFIG_FILENAMES[i] : i \in 1..Len(CONFIG_FILENAMES)} |->
        CASE n = CONFIG_FILENAMES[1] -> c1
          [] n = CONFIG_FILENAMES[2] -> c2
          [] n = CONFIG_FILENAMES[Len(CONFIG_FILENAMES)] -> c5
          [] OTHER -> NoFile] :
      c1 \in FirstCandidates, c2 \in SecondCandidates, c5 \in LastCandidates}

DocR == [dirs |-> Root, stem |-> "top"]
ConfigTrees ==
    {[d \in {DocAB, DocR} |-> [text |-> IF d = DocAB THEN t ELSE <<TextLine("p")>>,
                                mtime |-> 0, birth |-> 0]] :
       t \in {Fm(<< <<"B">>, <<"A">> >>), Fm(<< <<"C">>, <<"D">> >>)}}

InitConfig ==
    /\ ini \in Listings
    /\ exited = NotExited
    /\ template = <<>>
    /\ settings = DefaultSettings
    /\ has_birthtime = TRUE
    /\ root = Root
    /\ files \in ConfigTrees
    /\ today = 0
    /\ pc = "idle"
    /\ pending = {}
    /\ total = 0
    /\ changed = 0
    /\ runs = 0
    /\ last = NoCall
    /\ log = [md \in DOMAIN files |-> <<>>]
SpecConfig == InitConfig /\ [][Next]_vars

\* ---- settings: what the _settings entry of ObisDatabase.ini may be
\* the values one setting may be given in the file
SettingValues(name) ==
    CASE name = "key_mode" ->
           {Lit(x) : x \in {"strict", "merge", "Merge", " MERGE ", "STRICT ", "loose", " Loose", ""}}
             \cup {NoneVal, BoolTrue, Int7}
      [] name \in {"exclude_folders", "keep_extra_keys", "include_folders_by_name"} ->
           {List(<<>>), NoneVal, List(<<Lit("A")>>), List(<<Lit("B"), Lit("C")>>), Lit("x"),
            Map(<<E(<<"A">>, NoneVal)>>), Int7, BoolTrue}
      [] name = "base_root" -> {NoneVal, Lit("R"), Lit("A")}
      [] OTHER -> {BoolTrue, BoolFalse, NoneVal, Lit("no"), Int7}
SettingNames ==
    {"exclude_folders", "key_mode", "keep_extra_keys", "base_root", "scope_under_base_root",
     "include_folders_by_name", "selective_processing_active"}
\* "_settings: {}", one setting alone, and two settings together
SettingsMappings ==
    {Map(<<>>)}
      \cup UNION {{Map(<<E(<<n>>, v)>>) : v \in SettingValues(n)} : n \in SettingNames}
      \cup {Map(<<E(<<"key_mode">>, k), E(<<"exclude_folders">>, x)>>) :
               k \in {Lit(" MERGE "), Lit(" Loose")}, x \in {List(<<>>), List(<<Lit("B")>>)}}
\* the documents the file may be: no _settings key, "_settings:" with nothing, with
\* a scalar, with a sequence, and with a mapping
SettingsDocs ==
    {Map(<<E(<<"A">>, Lit("x"))>>)}
      \cup {Map(<<E(<<"A">>, Lit("x")), E(<<"_settings">>, v)>>) :
               v \in {NoneVal, Lit("hello"), Int7, List(<<Lit("a")>>), Str(<<>>)} \cup SettingsMappings}

InitSettings ==
    /\ ini \in {IniOnly(d) : d \in SettingsDocs}
    /\ exited = NotExited
    /\ template = <<>>
    /\ settings = DefaultSettings
    /\ has_birthtime = TRUE
    /\ root = Root
    /\ files \in ConfigTrees
    /\ today = 0
    /\ pc = "idle"
    /\ pending = {}
    /\ total = 0
    /\ changed = 0
    /\ runs = 0
    /\ last = NoCall
    /\ log = [md \in DOMAIN files |-> <<>>]
SpecSettings == InitSettings /\ [][Next]_vars

\* ---- documents with and without a well-formed metadata block, two to a tree
MetaTexts ==
    { <<TextLine("p")>>,
      <<DelimLine, KvLine(<<"A">>, Old("A")), BlankLine, TextLine("p")>>,
      <<DelimLine, BadLine, KvLine(<<"A">>, Old("A")), DelimLine, TextLine("p")>>,
      <<DelimLine, TextLine("q"), DotsLine, TextLine("p")>>,
      <<DelimLine, KvLine(<<"A">>, Old("A")), BadDateLine(<<"D">>), DelimLine, TextLine("p")>>,
      <<DelimLine, BadDateLine(<<"D">>), BadLine, DelimLine, TextLine("p")>>,
      <<DelimLine, DelimLine, TextLine("p")>>,
      Fm(<< <<"B">>, <<"A">> >>) }
MetaEntries == {E(<<"A">>, Wert), E(<<"A">>, Lit("x")), E(<<"B">>, Wert), E(<<"B">>, Leer)}
MetaTrees ==
    {[d \in {DocAB, DocR} |-> [text |-> IF d = DocAB THEN t1 ELSE t2, mtime |-> 0, birth |-> 0]] :
       t1 \in MetaTexts, t2 \in MetaTexts}
InitMeta == InitWith(RuleSets(MetaEntries, MaxFields), DocSettings, {TRUE}, MetaTrees)
SpecMeta == InitMeta /\ [][Next]_vars

\* ---- the walk: three run roots (one below a directory named like an excluded
\* folder, one below a directory named like an allow-listed one), trees of three
\* documents, exclusion patterns and the allow-list
WalkRoots == {Root, <<"srv", "Python", "R">>, <<"Sel", "R">>}
WalkDoc(r, d, stem) == [dirs |-> r \o d, stem |-> stem]
WalkTrees(r) ==
    { {WalkDoc(r, <<>>, "top"), WalkDoc(r, <<".git">>, "x"), WalkDoc(r, <<"Sel">>, "s")},
      {WalkDoc(r, <<"a", "b">>, "doc"), WalkDoc(r, <<"Sel", "D2">>, "d"),
       WalkDoc(r, <<"a", "Sel">>, "s")},
      {WalkDoc(r, <<>>, "top"), WalkDoc(r, <<"Sel">>, "s"), WalkDoc(r, <<"a", "Sel">>, "s")} }
WalkFiles(r) ==
    {[d \in tree |-> [text |-> IF d.stem = "top" THEN <<TextLine("p")>> ELSE Fm(<< <<"A">> >>),
                      mtime |-> 0, birth |-> 0]] : tree \in WalkTrees(r)}
WalkSettings ==
    {[DefaultSettings EXCEPT !.exclude_folders = x, !.include_folders_by_name = n,
                             !.selective_processing_active = a] :
       x \in {DefaultSettings.exclude_folders, <<"D*">>, <<".git", ".a*">>},
       n \in {<<>>, <<"Sel">>}, a \in BOOLEAN}
WalkTemplates == {<<E(<<"A">>, Lit("x"))>>, <<E(<<"A">>, Wert)>>}

InitWalk ==
    /\ ini \in {IniOnly(ConfigFor(s, t)) : s \in WalkSettings, t \in WalkTemplates}
    /\ exited = NotExited
    /\ template = <<>>
    /\ settings = DefaultSettings
    /\ has_birthtime = TRUE
    /\ root \in WalkRoots
    /\ files \in WalkFiles(root)
    /\ today = 0
    /\ pc = "idle"
    /\ pending = {}
    /\ total = 0
    /\ changed = 0
    /\ runs = 0
    /\ last = NoCall
    /\ log = [md \in DOMAIN files |-> <<>>]
SpecWalk == InitWalk /\ [][Next]_vars

\* ---- bodies: leading empty lines, lines of spaces, "\r\n" line ends, text that
\* looks like a metadata block, no body at all
BodyTexts ==
    { <<BlankLine, BlankLine, TextLine("p"), BlankLine, TextLine("q")>>,
      <<DelimLine, KvLine(<<"A">>, Old("A")), DelimLine, BlankLine, BlankLine, WsLine,
        BlankLine, TextLine("p"), BlankLine>>,
      <<DelimLine, KvLine(<<"A">>, Old("A")), DotsLine, CrlfLine("p"), BlankLine, CrlfLine("q")>>,
      <<DelimLine, KvLine(<<"A">>, Old("A")), TextLine("p")>>,
      <<DelimLine, KvLine(<<"A">>, Old("A")), DelimLine>>,
      <<DelimLine, KvLine(<<"A">>, Old("A")), DelimLine, TextLine("p"), DelimLine,
        KvLine(<<"B">>, Old("B")), DelimLine>>,
      <<DelimLine, KvLine(<<"A">>, Old("A")), DelimLine, BlankLine, CrlfLine("p")>>,
      <<WsLine, DelimLine, KvLine(<<"A">>, Old("A")), DelimLine, TextLine("p")>>,
      Fm(<< <<"A">> >>) }
BodyEntries == {E(<<"A">>, Wert), E(<<"A">>, Lit("x")), E(<<"B">>, Leer), E(<<"B">>, Wert)}
InitBody == InitWith(RuleSets(BodyEntries, MaxFields), DocSettings, {TRUE}, OneDoc(DocAB, BodyTexts))
SpecBody == InitBody /\ [][Next]_vars

\* ---- rule values: strings around the sentinels, sequences with "%wert%" elements,
\* integers, booleans and nulls at every level, "%wert%" inside nested mappings
SentinelStrings ==
    { Str(<<"%wert%", " x">>), Str(<<" ", "=leer=">>), Str(<<"=leer=", "%wert%">>),
      Str(<<"%wert%", "%data%">>) }
ListWert == List(<<Lit("x"), Wert, Lit("y"), Wert>>)
ListMixed == List(<<Str(<<"%wert%", " x">>), Wert, Leer, Int7>>)
ListScalars == List(<<Int7, NoneVal, BoolFalse>>)
MapScalars == Map(<<E(<<"n">>, Int7), E(<<"z">>, NoneVal), E(<<"b">>, BoolTrue)>>)
MapWert == Map(<<E(<<"s">>, Wert), E(<<"t">>, Lit("y"))>>)
MapMapWert == Map(<<E(<<"u">>, Map(<<E(<<"w">>, Wert)>>))>>)
ListMapWert == List(<<Map(<<E(<<"s">>, Wert)>>)>>)
RuleValues ==
    SentinelStrings
      \cup {Wert, Leer, Lit("x"), ListWert, List(<<Wert>>), ListMixed, Int7, BoolTrue, BoolFalse,
            NoneVal, ListScalars, MapScalars, MapWert, MapMapWert, ListMapWert}
ValueEntries == {E(k, v) : k \in {<<"A">>, <<"B">>}, v \in RuleValues}
InitValues == InitWith(RuleSets(ValueEntries, MaxFields), DocSettings, {TRUE},
                       OneDoc(DocAB, {<<TextLine("p")>>, Fm(<< <<"A">>, <<"B">> >>)}))
SpecValues == InitValues /\ [][Next]_vars

\* ---- names that have the form of a placeholder: documents called %folder%.md and
\* %root1%.md, directories called %root0% and %data%
ExpandDocs ==
    { [dirs |-> Root \o <<"a">>, stem |-> "%folder%"],
      [dirs |-> Root \o <<"a">>, stem |-> "%root1%"],
      [dirs |-> Root \o <<"a", "%root0%">>, stem |-> "doc"],
      [dirs |-> Root \o <<"%data%">>, stem |-> "doc"],
      DocAB }
ExpandValues ==
    { Str(<<"%data%">>), Str(<<"%folder0%">>), Str(<<"%date%", "_", "%data%">>),
      Str(<<"%folder%", "/", "%folder1%", "/", "%root1%">>), Str(<<"%%", "%root2%", "lit">>) }
ExpandEntries == {E(k, v) : k \in {<<"A">>, <<"B">>}, v \in ExpandValues}
InitExpand ==
    InitWith(RuleSets(ExpandEntries, MaxFields), DocSettings, {TRUE},
             UNION {OneDoc(md, PathTexts) : md \in ExpandDocs})
SpecExpand == InitExpand /\ [][Next]_vars

\* ---- anchors: run roots /home/R and /a/R, documents whose ancestors repeat a name
\* below the root, carry the root's own name, or a name that also occurs above it
AnchorRoots == {Root, <<"a", "R">>}
AnchorDocs(r) == {[dirs |-> r \o d, stem |-> "doc"] :
                    d \in {<<>>, <<"a">>, <<"a", "b", "a">>, <<"R", "b">>}}
AnchorValues ==
    { Str(<<"%root0%">>), Str(<<"%folder%", "-", "%root1%">>), Str(<<"%root2%">>) }
AnchorEntries == {E(k, v) : k \in {<<"A">>, <<"B">>}, v \in AnchorValues}
AnchorSettings ==
    {[DefaultSettings EXCEPT !.base_root = b, !.scope_under_base_root = s] :
       b \in {"", "R", "a", "b", "home"}, s \in BOOLEAN}

InitAnchor ==
    /\ ini \in {IniOnly(ConfigFor(s, t)) : s \in AnchorSettings, t \in RuleSets(AnchorEntries, MaxFields)}
    /\ exited = NotExited
    /\ template = <<>>
    /\ settings = DefaultSettings
    /\ has_birthtime = TRUE
    /\ root \in AnchorRoots
    /\ files \in UNION {OneDoc(md, {<<TextLine("p")>>}) : md \in AnchorDocs(root)}
    /\ today = 0
    /\ pc = "idle"
    /\ pending = {}
    /\ total = 0
    /\ changed = 0
    /\ runs = 0
    /\ last = NoCall
    /\ log = [md \in DOMAIN files |-> <<>>]
SpecAnchor == InitAnchor /\ [][Next]_vars

\* ---------------------------------------------------------------- claims
\* the latest process_md call is the latest thing the running walk did
LastIsLatest == last.called /\ last.run = runs /\ total = last.total_before + 1

\* the latest process_md call got as far as building the final field mapping
Built == last.called /\ last.stage # "skip"
\* the existing metadata that call read
ExistingRead == split_frontmatter(last.text).data

\* the Rule Set's entries: plain keys and rename keys "OLD/NEW"
IsRename(e) == Len(e.k) > 1
OldOf(e) == <<Head(e.k)>>
NewOf(e) == Tail(e.k)
Renames == {i \in 1..Len(template) : IsRename(template[i])}
Plains == {i \in 1..Len(template) : ~IsRename(template[i])}
OldSides == {OldOf(template[i]) : i \in Renames}
NewSides == {NewOf(template[i]) : i \in Renames}
\* the field an entry writes: the key itself, or the NEW side
Target(e) == IF IsRename(e) THEN NewOf(e) ELSE e.k
Targets == {Target(template[i]) : i \in 1..Len(template)}
\* the entry gives its target a binding: a plain entry always does, a rename entry does
\* with a concrete value or when OLD or NEW exists in the document
Binds(i) ==
    \/ ~IsRename(template[i])
    \/ template[i].v # Wert
    \/ HasKey(ExistingRead, OldOf(template[i]))
    \/ HasKey(ExistingRead, NewOf(template[i]))
Binders(n) == {i \in 1..Len(template) : Target(template[i]) = n /\ Binds(i)}
FirstBinder(n) == CHOOSE i \in Binders(n) : \A j \in Binders(n) : i <= j
LastBinder(n) == CHOOSE i \in Binders(n) : \A j \in Binders(n) : j <= i

\* C1 (as claimed): whenever process_md runs on a document it has already processed,
\* with the same Rule Set and Settings, the second run writes nothing and returns
\* "unchanged".
C1_SecondRunMakesNoChange ==
    (last.called /\ last.nth >= 2) => (last.ret = "False" /\ ~last.wrote)

C4_KeepExistingEveryField ==
    Built =>
      \A i \in Plains : template[i].v = Wert =>
        LET X == template[i].k IN
        IF HasKey(ExistingRead, X)
        THEN HasKey(last.final_data, X) /\ Get(last.final_data, X) = Get(ExistingRead, X)
        ELSE ~HasKey(last.final_data, X)

\* C4 (amended): the same for every such field X that is neither the OLD nor the NEW
\* side of a rename key of the Rule Set.
C4_KeepExistingOmission ==
    Built =>
      \A i \in Plains : (template[i].v = Wert /\ template[i].k \notin OldSides \cup NewSides) =>
        LET X == template[i].k IN
        IF HasKey(ExistingRead, X)
        THEN HasKey(last.final_data, X) /\ Get(last.final_data, X) = Get(ExistingRead, X)
        ELSE ~HasKey(last.final_data, X)

\* C4 witness: merge mode, a "%wert%" field the document lacks, and it is not output
\* although other fields are
C4_Witness_Omitted ==
    /\ Built
    /\ settings.key_mode = "merge"
    /\ last.final_data # <<>>
    /\ \E i \in Plains :
         /\ template[i].v = Wert
         /\ template[i].k \notin OldSides \cup NewSides
         /\ ~HasKey(ExistingRead, template[i].k)
         /\ ~HasKey(last.final_data, template[i].k)

\* C6 (as claimed): for a rename key "OLD/NEW" with the value "%wert%" and a document
\* that has OLD = v and no NEW, the output has NEW = v and has no OLD, in strict and in
\* merge mode.
C6_RenameTransfers ==
    Built =>
      \A i \in Renames :
        LET src == OldOf(template[i])
            dst == NewOf(template[i])
        IN (template[i].v = Wert /\ HasKey(ExistingRead, src) /\ ~HasKey(ExistingRead, dst)) =>
             /\ HasKey(last.final_data, dst)
             /\ Get(last.final_data, dst) = Get(ExistingRead, src)
             /\ ~HasKey(last.final_data, src)

\* C7 (as claimed): for every rename key "OLD/NEW" of the Rule Set, whatever its value,
\* the final field mapping has no field OLD.
C7_OldNeverSurvives ==
    Built => \A i \in Renames : ~HasKey(last.final_data, OldOf(template[i]))

\* C8: in merge mode every pre-existing field that no Rule Set entry names (as its key,
\* as NEW or as OLD) is in the output with its value unchanged; these fields come after
\* all Rule Set fields, in the relative order of the existing metadata.
C8_Survivors == SelectSeq(Keys(ExistingRead), LAMBDA k : k \notin Targets \cup OldSides)
C8_MergeSuperset ==
    (Built /\ settings.key_mode = "merge") =>
      LET out == Keys(last.final_data)
          S == {C8_Survivors[i] : i \in 1..Len(C8_Survivors)}
      IN /\ \A k \in S : HasKey(last.final_data, k)
                          /\ Get(last.final_data, k) = Get(ExistingRead, k)
         /\ SelectSeq(out, LAMBDA k : k \in S) = C8_Survivors
         /\ \A i, j \in 1..Len(out) : (out[i] \in S /\ out[j] \notin S) => j < i
         /\ \A i \in 1..Len(out) : out[i] \notin S => out[i] \in Targets

\* C8 witness: merge mode, two surviving fields placed after a Rule Set field
C8_Witness_TwoSurvivors ==
    /\ Built
    /\ settings.key_mode = "merge"
    /\ Len(C8_Survivors) >= 2
    /\ Len(last.final_data) > Len(C8_Survivors)
    /\ last.final_data[1].k \in Targets

\* C5 (as claimed): a Rule Set field whose value is exactly "=leer=" is output as the
\* empty string, at top level whatever the document held, and inside a nested mapping;
\* a list loses exactly its "=leer=" elements and keeps the others in order.
C5_NestedAndList ==
    \A i \in 1..Len(template) :
      LET tv == template[i].v
          av == last.applied[i].v
      IN /\ tv = MapLeer =>
              /\ Keys(av.c) = Keys(tv.c)
              /\ Get(av.c, <<"s">>) = Str(<<>>)
              /\ Get(av.c, <<"t">>) = Lit("y")
              /\ Get(Get(av.c, <<"u">>).c, <<"w">>) = Str(<<>>)
         /\ tv = ListLeer =>
              /\ Len(av.c) = Len(tv.c) - Cardinality({j \in 1..Len(tv.c) : tv.c[j].v = Leer})
              /\ av = List(<<Lit("x"), Lit("y")>>)

C5_ForceEmptyEveryField ==
    Built =>
      /\ \A i \in 1..Len(template) : template[i].v = Leer =>
           /\ HasKey(last.final_data, Target(template[i]))
           /\ Get(last.final_data, Target(template[i])) = Str(<<>>)
      /\ C5_NestedAndList

\* C5 (amended): the same, the top-level part for every "=leer=" entry that no later
\* entry of the Rule Set rebinds (a later entry with the same target field).
C5_ForceEmpty ==
    Built =>
      /\ \A i \in 1..Len(template) :
           (template[i].v = Leer /\ LastBinder(Target(template[i])) = i) =>
             /\ HasKey(last.final_data, Target(template[i]))
             /\ Get(last.final_data, Target(template[i])) = Str(<<>>)
      /\ C5_NestedAndList

\* C5 witness: a "=leer=" field overwrote the value the document had, next to a list
\* that lost its two "=leer=" elements
C5_Witness_Overwritten ==
    /\ Built
    /\ \E i \in Plains :
         /\ template[i].v = Leer
         /\ HasKey(ExistingRead, template[i].k)
         /\ Get(ExistingRead, template[i].k) # Str(<<>>)
         /\ Get(last.final_data, template[i].k) = Str(<<>>)
    /\ \E i \in Plains :
         /\ template[i].v = ListLeer
         /\ Get(last.final_data, template[i].k) = List(<<Lit("x"), Lit("y")>>)

\* the field names of the metadata block that process_md composed, top to bottom
C3_WrittenKeys ==
    LET block == SelectSeq(SubSeq(last.new_content, 1, Len(last.final_data) + 1),
                           LAMBDA l : l.kind = "kv")
    IN [i \in 1..Len(block) |-> block[i].k]
C3_Pos(n) == CHOOSE i \in 1..Len(C3_WrittenKeys) : C3_WrittenKeys[i] = n
C3_Written == {C3_WrittenKeys[i] : i \in 1..Len(C3_WrittenKeys)}
\* the pre-existing fields that no Rule Set entry writes come last, in existing order
C3_SurvivorsLast ==
    /\ \A n \in C3_Written \cap Targets : \A s \in C3_Written \ Targets :
         C3_Pos(n) < C3_Pos(s)
    /\ \A s1, s2 \in C3_Written \ Targets :
         /\ HasKey(ExistingRead, s1)
         /\ C3_Pos(s1) < C3_Pos(s2) <=> IndexOf(ExistingRead, s1) < IndexOf(ExistingRead, s2)

\* C3 (as claimed): in the written metadata block the fields produced by the Rule Set
\* come first, in Rule Set order, a NEW field at the position of its rename entry, and
\* the surviving pre-existing fields follow in their existing relative order.
C3_OrderAsClaimed ==
    last.stage = "built" =>
      /\ C3_WrittenKeys = Keys(last.final_data)
      /\ \A i, j \in 1..Len(template) :
           ( /\ i < j
             /\ Binds(i) /\ Binds(j)
             /\ Target(template[i]) # Target(template[j])
             /\ {Target(template[i]), Target(template[j])} \subseteq C3_Written )
           => C3_Pos(Target(template[i])) < C3_Pos(Target(template[j]))
      /\ C3_SurvivorsLast

\* C3 (amended): the same, where a field that several Rule Set entries write (as a
\* plain key or as NEW of a rename key) stands at the position of the first of them
\* that binds it.
C3_OutputFieldOrder ==
    last.stage = "built" =>
      /\ C3_WrittenKeys = Keys(last.final_data)
      /\ \A n1, n2 \in C3_Written \cap Targets :
           /\ Binders(n1) # {}
           /\ C3_Pos(n1) < C3_Pos(n2) <=> FirstBinder(n1) < FirstBinder(n2)
      /\ C3_SurvivorsLast

\* C3 witness: a rename entry and a later plain entry both produced a field, in that
\* order although the document had them the other way round, and two pre-existing
\* fields survive behind them
C3_Witness_RenameThenPlainThenSurvivors ==
    /\ last.stage = "built"
    /\ \E i \in Renames, j \in Plains :
         /\ i < j
         /\ template[i].v = Wert
         /\ HasKey(ExistingRead, OldOf(template[i]))
         /\ HasKey(ExistingRead, template[j].k)
         /\ IndexOf(ExistingRead, template[j].k) < IndexOf(ExistingRead, OldOf(template[i]))
         /\ {NewOf(template[i]), template[j].k} \subseteq C3_Written
         /\ C3_Pos(NewOf(template[i])) < C3_Pos(template[j].k)
    /\ Cardinality(C3_Written \ Targets) >= 2

\* C9 (as claimed): in strict mode the output field names are exactly the Rule Set
\* fields that resolved to a value (a concrete value, or keep-existing with an existing
\* value) plus the pre-existing fields whose name matches a keep_extra_keys pattern, and
\* every Rule Set field with a concrete value carries that value.
C9_ResolvedAsClaimed ==
    {Target(template[i]) : i \in
       {j \in 1..Len(template) :
          \/ template[j].v # Wert
          \/ ~IsRename(template[j]) /\ HasKey(ExistingRead, template[j].k)
          \/ IsRename(template[j]) /\ Binds(j)}}
C9_KeptAsClaimed ==
    {k \in KeySet(ExistingRead) :
       \E i \in 1..Len(settings.keep_extra_keys) : fnmatch(k[1], settings.keep_extra_keys[i])}
C9_StrictAsClaimed ==
    (Built /\ settings.key_mode = "strict") =>
      /\ KeySet(last.final_data) = C9_ResolvedAsClaimed \cup C9_KeptAsClaimed
      /\ \A i \in 1..Len(template) : template[i].v # Wert =>
           /\ HasKey(last.final_data, Target(template[i]))
           /\ Get(last.final_data, Target(template[i])) = last.applied[i].v

\* C9 (amended): in strict mode the output field names are exactly the Rule Set fields
\* that resolved to a value plus the pre-existing fields, other than OLD sides of rename
\* keys, whose name matches a keep_extra_keys pattern; a field that several entries
\* name resolves as its last binding entry says, a plain "%wert%" field that is the OLD
\* side of a rename has no existing value, and a field whose last binding entry has a
\* concrete value carries that value.
C9_Resolved ==
    {n \in Targets :
       /\ Binders(n) # {}
       /\ LET e == template[LastBinder(n)] IN
          \/ e.v # Wert
          \/ IsRename(e)
          \/ HasKey(ExistingRead, n) /\ n \notin OldSides}
C9_Kept ==
    {k \in KeySet(ExistingRead) \ OldSides :
       \E pat \in {settings.keep_extra_keys[i] : i \in 1..Len(settings.keep_extra_keys)} :
          fnmatch(k[1], pat)}
C9_Strict ==
    (Built /\ settings.key_mode = "strict") =>
      /\ KeySet(last.final_data) = C9_Resolved \cup C9_Kept
      /\ \A i \in 1..Len(template) :
           (template[i].v # Wert /\ LastBinder(Target(template[i])) = i) =>
             /\ HasKey(last.final_data, Target(template[i]))
             /\ Get(last.final_data, Target(template[i])) = last.applied[i].v

\* C9 witness: strict mode with a keep-list; a concrete Rule Set field replaced the
\* document's value, a matching field was kept and another pre-existing field dropped
C9_Witness_KeptAndDropped ==
    /\ Built
    /\ settings.key_mode = "strict"
    /\ \E i \in Plains :
         /\ template[i].v = Lit("x")
         /\ HasKey(ExistingRead, template[i].k)
         /\ Get(last.final_data, template[i].k) = Lit("x")
    /\ \E k \in C9_Kept : k \notin Targets /\ HasKey(last.final_data, k)
    /\ \E k \in KeySet(ExistingRead) : ~HasKey(last.final_data, k) /\ k \notin OldSides

\* the segments [s1..sk] of the document's parent directory below the base directory
C10_Segments ==
    SubSeq(last.md.dirs, Len(Base(last.md)) + 1, Len(last.md.dirs))
C10_BaseName == Base(last.md)[Len(Base(last.md))]
C10_Expected(tok) ==
    IF tok \notin DOMAIN ROOT_N_RE THEN tok
    ELSE LET N == ROOT_N_RE[tok] IN
         IF N = 0 THEN C10_BaseName
         ELSE IF N <= Len(C10_Segments) THEN C10_Segments[N]
         ELSE C10_BaseName

\* C10: for a document whose parent directory lies at the segments [s1..sk] below the
\* base directory (the run root, or the resolved anchor), %rootN% resolves to the
\* base directory's name if N = 0, to sN if 1 <= N <= k, and to the base directory's
\* name if N > k; the resolved value is what the output carries.
C10_DownwardResolution ==
    Built =>
      /\ IsPrefix(Base(last.md), last.md.dirs)
      /\ Len(last.applied) = Len(template)
      /\ \A i \in 1..Len(template) :
           LET want == Str([j \in 1..Len(template[i].v.s) |-> C10_Expected(template[i].v.s[j])])
           IN /\ last.applied[i].k = template[i].k
              /\ last.applied[i].v = want
              /\ Get(last.final_data, template[i].k) = want

\* C10 witness: root R, document R/a/b/doc.md, "%root1%-%root2%" came out as "a-b"
C10_Witness_AB ==
    /\ last.stage = "built"
    /\ root = Root
    /\ last.md = DocAB
    /\ Base(last.md) = Root
    /\ \E i \in 1..Len(template) :
         /\ template[i].v = Str(<<"%root1%", "-", "%root2%">>)
         /\ \E l \in 1..Len(files[last.md].text) :
              files[last.md].text[l] = KvLine(template[i].k, Str(<<"a", "-", "b">>))

\* the names of the document's ancestor directories, the immediate parent first
C11_UpwardLevels ==
    [i \in 1..Len(last.md.dirs) |-> last.md.dirs[Len(last.md.dirs) + 1 - i]]
C11_Expected(tok) ==
    IF tok \notin DOMAIN FOLDER_N_RE THEN tok
    ELSE LET N == FOLDER_N_RE[tok] IN
         IF C11_UpwardLevels = <<>> THEN ""
         ELSE IF N < Len(C11_UpwardLevels) THEN C11_UpwardLevels[N + 1]
         ELSE C11_UpwardLevels[1]

\* C11: with upward_levels the names of the document's ancestor directories from the
\* immediate parent (index 0) up to the filesystem root, %folderN% resolves to
\* upward_levels[N] if N is in range, to upward_levels[0] if N is out of range, and
\* to the empty string if upward_levels is empty; the output carries the result.
C11_UpwardResolution ==
    Built =>
      /\ Len(last.applied) = Len(template)
      /\ \A i \in 1..Len(template) :
           LET parts == [j \in 1..Len(template[i].v.s) |-> C11_Expected(template[i].v.s[j])]
               want == Str(SelectSeq(parts, LAMBDA x : x # ""))
           IN /\ last.applied[i].k = template[i].k
              /\ last.applied[i].v = want
              /\ Get(last.final_data, template[i].k) = want

\* C11 witness: for R/a/b/doc.md, %folder0% came out as "b" and %folder1% as "a"
C11_Witness_BA ==
    /\ last.stage = "built"
    /\ last.md = DocAB
    /\ \E i, j \in 1..Len(template) :
         /\ template[i].v = Str(<<"%folder0%">>)
         /\ template[j].v = Str(<<"%folder1%">>)
         /\ \E l \in 1..Len(files[last.md].text) :
              files[last.md].text[l] = KvLine(template[i].k, Lit("b"))
         /\ \E l \in 1..Len(files[last.md].text) :
              files[last.md].text[l] = KvLine(template[j].k, Lit("a"))

\* the document has no ancestor directory named base_root within the run root
C12_OutOfScope(md) ==
    /\ settings.base_root # ""
    /\ settings.scope_under_base_root
    /\ ~\E i \in Len(root)..Len(md.dirs) : i >= 1 /\ md.dirs[i] = settings.base_root

\* C12 (as claimed): with base_root set and scope_under_base_root true, a document
\* without an ancestor directory of that name within the run root keeps its content,
\* and the total of a finished run does not count it.
C12_AnchorScoping ==
    /\ (last.called /\ C12_OutOfScope(last.md)) =>
          (~last.wrote /\ files[last.md].text = last.text)
    /\ (pc = "idle" /\ runs > 0) =>
          total = Cardinality({md \in DOMAIN files : ~Filtered(md) /\ ~C12_OutOfScope(md)})

\* the configuration file load_config reads: the first candidate that is a file
C13_Present == {i \in 1..Len(CONFIG_FILENAMES) : ini[CONFIG_FILENAMES[i]].kind = "file"}
C13_Ini == ini[CONFIG_FILENAMES[CHOOSE i \in C13_Present : \A j \in C13_Present : i <= j]]
\* no candidate exists, or the file holds a tab, or its content is not a mapping: a
\* syntax error, a top-level sequence or a top-level scalar
C13_ConfigError ==
    \/ C13_Present = {}
    \/ C13_Ini.tabs
    \/ C13_Ini.doc.t \in {"invalid", "list", "str", "int", "bool"}
\* the process of the latest run is over
C13_Ended == runs > 0 /\ pc # "walk"

\* C13 (as claimed): on a configuration error the process writes a diagnostic to
\* standard error and exits with status 2 before it reads or writes any document; a
\* run that completes normally exits with status 0.
C13_ConfigErrorsFatal ==
    /\ (C13_Ended /\ C13_ConfigError) =>
          (exited = Exit2 /\ pc = "exit" /\ ~(last.called /\ last.run = runs))
    /\ (C13_Ended /\ pc = "idle") => exited.status = "0"

\* the document's leading metadata block is absent, unterminated, fails to parse or
\* parses to something that is not a mapping
C14_Malformed(text) ==
    \/ text = <<>>
    \/ text[1].kind # FRONTMATTER_DELIM
    \/ ~\E e \in 2..Len(text) : text[e].kind \in {FRONTMATTER_DELIM, "dots"}
    \/ LET e == CHOOSE i \in 2..Len(text) :
                   /\ text[i].kind \in {FRONTMATTER_DELIM, "dots"}
                   /\ \A j \in 2..(i - 1) : text[j].kind \notin {FRONTMATTER_DELIM, "dots"}
       IN \E j \in 2..(e - 1) : text[j].kind \in {"bad", "kv_bad_date", "text", "empty_map"}

\* C14 (as claimed): a document whose metadata block is absent, unterminated, fails to
\* parse or parses to a non-mapping is processed with empty existing metadata: its
\* output is the Rule Set's concrete fields ("%wert%" fields omitted), no error ends
\* the run, and the documents after it are processed.
C14_MalformedIsNonFatal ==
    (last.called /\ C14_Malformed(last.text)) =>
      /\ last.stage = "built"
      /\ pc # "raised"
      /\ last.final_data = SelectSeq(last.applied, LAMBDA e : e.v # KEEP_EXISTING)
      /\ (C13_Ended /\ ~Filtered(DocR) /\ ~Filtered(DocAB)) => total = Cardinality(DOMAIN files)

\* a run has come to its end and printed its summary
C15_RunOver == pc = "idle" /\ runs > 0
\* the document lies in a subtree of the run root whose directory name matches an
\* exclude_folders pattern
C15_InExcludedSubtree(md) ==
    \E i \in Len(root)..Len(md.dirs) : \E j \in 1..Len(settings.exclude_folders) :
       i >= 1 /\ fnmatch(md.dirs[i], settings.exclude_folders[j])
\* selection as the contract words it: inactive, or the nearest ancestor directory
\* named in the allow-list exists and has no direct child directory that matches an
\* exclude_folders pattern
C16_Active ==
    settings.selective_processing_active /\ Len(settings.include_folders_by_name) > 0
C16_Allowed == {settings.include_folders_by_name[i] : i \in 1..Len(settings.include_folders_by_name)}
C16_Selected(md) ==
    \E n \in 1..Len(md.dirs) :
       /\ md.dirs[n] \in C16_Allowed
       /\ \A m \in (n + 1)..Len(md.dirs) : md.dirs[m] \notin C16_Allowed
       /\ ~\E d \in AllDirs :
             /\ Len(d) = n + 1
             /\ SubSeq(d, 1, n) = SubSeq(md.dirs, 1, n)
             /\ \E j \in 1..Len(settings.exclude_folders) :
                  fnmatch(d[n + 1], settings.exclude_folders[j])

\* C15 (as claimed): in a run no document in a subtree whose directory name matches
\* an exclude_folders pattern is handed to process_md (read, rewritten or counted),
\* and by the end of the run every other document under the root that passes
\* selection has been handed to it exactly once.
C15_ExclusionPruning ==
    /\ \A md \in DOMAIN files : C15_InExcludedSubtree(md) => log[md] = <<>>
    /\ \A md \in DOMAIN files : Len(log[md]) <= 1
    /\ C15_RunOver =>
         \A md \in DOMAIN files :
            (~C15_InExcludedSubtree(md) /\ (C16_Active => C16_Selected(md)))
              => Len(log[md]) = 1

\* C16: the allow-list filter is active only when selective_processing_active is true
\* and include_folders_by_name is non-empty; when active, a document is processed only
\* if its nearest ancestor directory named in the allow-list exists and has no direct
\* child directory matching an exclude_folders pattern, and every such document that
\* exclusion lets through is processed; when inactive, exclusion alone decides.
C16_SelectiveProcessing ==
    /\ \A md \in DOMAIN files :
         (log[md] # <<>> /\ C16_Active) => C16_Selected(md)
    /\ C15_RunOver =>
         \A md \in DOMAIN files :
            Len(log[md]) = 1 <=>
              /\ ~is_excluded(md, settings.exclude_folders)
              /\ C16_Active => C16_Selected(md)

\* C16 witness: at the end of a run with the filter active, a document below an
\* allow-listed directory was processed, one whose allow-listed ancestor has an excluded
\* child directory was not, and one without an allow-listed ancestor was not
C16_Witness_ThreeWays ==
    /\ C15_RunOver
    /\ C16_Active
    /\ \E md \in DOMAIN files : Len(log[md]) = 1 /\ C16_Selected(md)
    /\ \E md \in DOMAIN files :
         /\ log[md] = <<>>
         /\ ~is_excluded(md, settings.exclude_folders)
         /\ \E n \in 1..Len(md.dirs) : md.dirs[n] \in C16_Allowed
    /\ \E md \in DOMAIN files :
         /\ log[md] = <<>>
         /\ ~is_excluded(md, settings.exclude_folders)
         /\ \A n \in 1..Len(md.dirs) : md.dirs[n] \notin C16_Allowed

\* the original body: everything after the closing delimiter of the leading block, or
\* the whole original text when there is no terminated block
C17_OriginalBody(text) ==
    LET ends == {i \in 2..Len(text) : text[i].kind \in {FRONTMATTER_DELIM, "dots"}} IN
    IF text = <<>> \/ text[1].kind # FRONTMATTER_DELIM \/ ends = {} THEN text
    ELSE LET last_block_line == CHOOSE i \in ends : \A j \in ends : i <= j
         IN [i \in 1..(Len(text) - last_block_line) |-> text[last_block_line + i]]
\* the lines left when the leading empty lines are removed
C17_FirstKept(body) ==
    IF \A i \in 1..Len(body) : body[i].kind = "blank" THEN Len(body) + 1
    ELSE CHOOSE i \in 1..Len(body) :
           body[i].kind # "blank" /\ \A j \in 1..(i - 1) : body[j].kind = "blank"
C17_Stripped(body) ==
    [i \in 1..(Len(body) + 1 - C17_FirstKept(body)) |-> body[C17_FirstKept(body) - 1 + i]]
\* every "\r\n" line end turned into "\n"
C17_LfOnly(body) ==
    [i \in 1..Len(body) |->
       IF body[i].kind = "text_crlf" THEN [body[i] EXCEPT !.kind = "text"] ELSE body[i]]
\* the metadata block as written: delimiter, fields, delimiter, empty line
C17_BlockLen == Len(dump_frontmatter(last.final_data))
C17_WrittenBody ==
    [i \in 1..(Len(files[last.md].text) - C17_BlockLen) |-> files[last.md].text[C17_BlockLen + i]]

\* C17 (as claimed): after process_md rewrote a document, the text after the metadata
\* block is the original body with only its leading empty lines removed.
C17_BodyVerbatim ==
    last.wrote =>
      /\ SubSeq(files[last.md].text, 1, C17_BlockLen) = dump_frontmatter(last.final_data)
      /\ C17_WrittenBody = C17_Stripped(C17_OriginalBody(last.text))

\* C17 (amended): the text after the metadata block is the original body, its "\r\n"
\* line ends turned into "\n", with only its leading empty lines removed; lines of
\* spaces and everything after the first kept line stay as they were.
C17_BodyPreservation ==
    last.wrote =>
      /\ SubSeq(files[last.md].text, 1, C17_BlockLen) = dump_frontmatter(last.final_data)
      /\ C17_WrittenBody = C17_Stripped(C17_LfOnly(C17_OriginalBody(last.text)))

\* C17 witness: a rewritten document whose body began with two empty lines and a line
\* of spaces: the empty lines are gone, the line of spaces and the rest are there
C17_Witness_LeadingLinesGone ==
    /\ last.wrote
    /\ LET body == C17_OriginalBody(last.text) IN
       /\ Len(body) > 3
       /\ body[1] = BlankLine /\ body[2] = BlankLine /\ body[3] = WsLine
       /\ C17_WrittenBody = SubSeq(body, 3, Len(body))

\* the documents the walk has handed to process_md, and those it has written
C18_Handed == {md \in DOMAIN files : log[md] # <<>>}
C18_Written == {md \in DOMAIN files : \E i \in 1..Len(log[md]) : log[md][i].wrote}

\* C18: at the end of run, total is the number of documents that survived the
\* exclusion and selection filters and were handed to process_md, changed is the
\* number of documents written, changed <= total at every point of the run, and each
\* such document is reported exactly once, as updated if and only if it was written
\* and as unchanged otherwise.
C18_RunAccounting ==
    /\ changed <= total
    /\ pc = "walk" =>
         /\ total = Cardinality(C18_Handed)
         /\ changed = Cardinality(C18_Written)
    /\ C15_RunOver =>
         /\ total = Cardinality({md \in DOMAIN files : ~Filtered(md)})
         /\ total = Cardinality(C18_Handed)
         /\ changed = Cardinality(C18_Written)
         /\ \A md \in DOMAIN files :
              IF Filtered(md) THEN log[md] = <<>>
              ELSE /\ Len(log[md]) = 1
                   /\ log[md][1].report = (IF log[md][1].wrote THEN "updated" ELSE "unchanged")

\* C18 witness: a run ended in which one document was filtered out, one was written
\* and reported as updated and one was left alone and reported as unchanged
C18_Witness_Mixed ==
    /\ C15_RunOver
    /\ total = 2
    /\ changed = 1
    /\ \E md \in DOMAIN files : Filtered(md) /\ log[md] = <<>>
    /\ \E md \in DOMAIN files : log[md] = <<[report |-> "updated", wrote |-> TRUE]>>
    /\ \E md \in DOMAIN files : log[md] = <<[report |-> "unchanged", wrote |-> FALSE]>>

\* the latest process has loaded its configuration
C19_Loaded == runs > 0 /\ pc \in {"walk", "idle"}
\* the top-level entries of the first existing candidate whose key does not begin
\* with "_", in file order
C19_RuleSetOfFirst ==
    LET doc == C13_Ini.doc IN
    IF doc.t # "map" THEN <<>>
    ELSE SelectSeq(doc.c, LAMBDA e : e.k[1] \notin {"_settings", "_note"})

\* C19: load_config uses the first existing file of the candidate list and ignores
\* the later ones; the Rule Set is exactly that file's top-level keys that do not
\* begin with the reserved prefix, with their values, in file order, and the settings
\* sub-mapping is never a Rule Set field.
C19_RuleLoading ==
    C19_Loaded =>
      /\ C13_Present # {}
      /\ template = C19_RuleSetOfFirst
      /\ \A i \in 1..Len(template) : template[i].k # <<"_settings">>
      /\ last.called /\ last.run = runs /\ last.stage = "built" =>
           Len(last.applied) = Len(template)

\* C19 witness: ObisDatabase.ini and two later candidates exist; the Rule Set is the
\* first file's A and B, in that order, around the settings sub-mapping that was read
\* as settings
C19_Witness_FirstOfThree ==
    /\ C19_Loaded
    /\ ini[CONFIG_FILENAMES[1]] = IniFile(FALSE, CfgMerge)
    /\ ini[CONFIG_FILENAMES[2]].kind = "file"
    /\ ini[CONFIG_FILENAMES[Len(CONFIG_FILENAMES)]].kind = "file"
    /\ template = <<E(<<"A">>, Lit("x")), E(<<"B">>, Wert)>>
    /\ settings.key_mode = "merge"

\* the _settings entry of the file, and the value it gives the setting name
C20_Raw == IF HasKey(C13_Ini.doc.c, <<"_settings">>) THEN Get(C13_Ini.doc.c, <<"_settings">>) ELSE NoneVal
C20_Configured(name) == C20_Raw.t = "map" /\ HasKey(C20_Raw.c, <<name>>)
C20_Value(name) == Get(C20_Raw.c, <<name>>)
\* the process got past Settings.from_cfg
C20_Returned == pc \in {"walk", "idle"}
\* the defaults, key_mode and exclude_folders parts of the claim
C20_RecordAsClaimed ==
    /\ \A name \in SettingNames : ~C20_Configured(name) => settings[name] = DefaultSettings[name]
    /\ settings.key_mode \in {"strict", "merge"}
    /\ settings.key_mode = "merge" <=>
         (C20_Configured("key_mode")
            /\ C20_Value("key_mode") \in {Lit("merge"), Lit("Merge"), Lit(" MERGE ")})
    /\ settings.exclude_folders # <<>>
    /\ (C20_Configured("exclude_folders") /\ C20_Value("exclude_folders") = List(<<>>))
         => settings.exclude_folders = DefaultSettings.exclude_folders

\* C20 (as claimed): for every configuration mapping Settings.from_cfg returns a
\* record in which every absent setting has its default, key_mode is exactly "strict"
\* or "merge" (anything but a variant of merge becomes strict) and exclude_folders is
\* never empty (an empty configured list yields the built-in set).
C20_SettingsDefaults ==
    (runs > 0 /\ C13_Ini.doc.t = "map") => (C20_Returned /\ C20_RecordAsClaimed)

\* what the rename key at position i of the Rule Set binds NEW to, as the claim has it
C21_Bound(i, fd) ==
    LET src == OldOf(template[i])
        dst == NewOf(template[i])
    IN IF last.applied[i].v = KEEP_EXISTING
       THEN IF HasKey(ExistingRead, src)
            THEN HasKey(fd, dst) /\ Get(fd, dst) = Get(ExistingRead, src)
            ELSE HasKey(ExistingRead, dst) =>
                   (HasKey(fd, dst) /\ Get(fd, dst) = Get(ExistingRead, dst))
       ELSE HasKey(fd, dst) /\ Get(fd, dst) = last.applied[i].v

\* C21 (as claimed): for every rename key "OLD/NEW" the output binds NEW to
\* existing[OLD] if OLD exists, else to existing[NEW] if NEW exists, and has no NEW if
\* neither exists, when the resolved value is keep-existing; to the resolved value
\* itself when it is a concrete value.
C21_RenameLookupEveryKey ==
    (Built /\ last.stage = "built") =>
      \A i \in Renames :
        /\ C21_Bound(i, last.final_data)
        /\ (last.applied[i].v = KEEP_EXISTING /\ ~HasKey(ExistingRead, OldOf(template[i]))
              /\ ~HasKey(ExistingRead, NewOf(template[i])))
             => ~HasKey(last.final_data, NewOf(template[i]))

\* C21 (amended): the same for every rename key that is the last entry of the Rule Set
\* to bind its NEW; NEW is absent from the output when neither OLD nor NEW exists and
\* no other entry of the Rule Set binds NEW.
C21_RenameLookup ==
    (Built /\ last.stage = "built") =>
      \A i \in Renames :
        /\ (Binds(i) /\ LastBinder(NewOf(template[i])) = i) => C21_Bound(i, last.final_data)
        /\ Binders(NewOf(template[i])) = {} => ~HasKey(last.final_data, NewOf(template[i]))

\* C21 witness: "A/B": "%wert%" on a document that has both A and B: B took A's value
\* and its own earlier value is gone
C21_Witness_OldWins ==
    /\ Built /\ last.stage = "built"
    /\ \E i \in Renames :
         /\ template[i] = E(<<"A", "B">>, Wert)
         /\ HasKey(ExistingRead, <<"A">>) /\ HasKey(ExistingRead, <<"B">>)
         /\ LastBinder(<<"B">>) = i
         /\ Get(ExistingRead, <<"A">>) # Get(ExistingRead, <<"B">>)
         /\ Get(last.final_data, <<"B">>) = Get(ExistingRead, <<"A">>)

\* the positions, on the path of the document's parent directory, of the directories
\* named base_root from the run root downwards
C22_Named ==
    {n \in Len(root)..Len(last.md.dirs) : n >= 1 /\ last.md.dirs[n] = settings.base_root}
C22_Nearest == CHOOSE n \in C22_Named : \A m \in C22_Named : m <= n
\* the base directory as the claim has it
C22_Base ==
    IF settings.base_root # "" /\ C22_Named # {}
    THEN SubSeq(last.md.dirs, 1, C22_Nearest) ELSE root
C22_Below == SubSeq(last.md.dirs, Len(C22_Base) + 1, Len(last.md.dirs))
C22_Expected(tok) ==
    IF tok \in {"%folder%", "%root0%"} THEN PathName(C22_Base)
    ELSE IF tok \in DOMAIN ROOT_N_RE
    THEN IF ROOT_N_RE[tok] <= Len(C22_Below) THEN C22_Below[ROOT_N_RE[tok]]
         ELSE PathName(C22_Base)
    ELSE tok

\* C22: with base_root naming A the anchor is the nearest directory named A among the
\* document's parent directory and its ancestors down from the run root (the run root
\* included, nothing above it); a found anchor is the base directory of %folder%,
\* %root0% and %rootN%; with no anchor and scope_under_base_root false the run root is
\* the base and the document is processed.
C22_AnchorResolution ==
    (last.called /\ last.run = runs) =>
      /\ (settings.base_root # "" /\ C22_Named = {} /\ ~settings.scope_under_base_root)
           => last.stage = "built"
      /\ last.stage = "built" =>
           \A i \in 1..Len(template) :
             last.applied[i].v =
               Str([j \in 1..Len(template[i].v.s) |-> C22_Expected(template[i].v.s[j])])

\* C22 witness: run root /a/R, base_root "a", document in /a/R/a/b/a: the anchor is the
\* innermost a, not the a below the root and not the a above it
C22_Witness_NearestOfThree ==
    /\ last.called /\ last.stage = "built"
    /\ root = <<"a", "R">>
    /\ settings.base_root = "a"
    /\ last.md.dirs = <<"a", "R", "a", "b", "a">>
    /\ C22_Base = last.md.dirs
    /\ \E i \in 1..Len(template) :
         /\ template[i].v = Str(<<"%folder%", "-", "%root1%">>)
         /\ last.applied[i].v = Str(<<"a", "-", "a">>)

\* the configuration file parses and its top level is a sequence or a scalar
C23_NotAMapping ==
    /\ C13_Present # {}
    /\ ~C13_Ini.tabs
    /\ C13_Ini.doc.t \in {"list", "str", "int", "bool"}

\* C23 (as claimed): when the top level of the Rule Set is not a mapping, the process
\* ends with an error after the configuration was loaded and before the traversal,
\* so that no document is read or written.
C23_ShapeErrorBeforeTraversal ==
    (runs > 0 /\ C23_NotAMapping) =>
      /\ pc \in {"raised", "exit"}
      /\ exited.status \in {"1", "2"}
      /\ ~(last.called /\ last.run = runs)
      /\ \A md \in DOMAIN files : log[md] = <<>>

\* a string rule value that holds a sentinel token next to other text
C24_HoldsSentinel(v) ==
    /\ v.t = "str"
    /\ v.s # KEEP_TOKEN /\ v.s # SENTINEL_EMPTY
    /\ \E j \in 1..Len(v.s) : v.s[j] \in {KEEP_TOKEN[1], SENTINEL_EMPTY[1]}
\* such a string with its placeholders resolved and the sentinel text left as it is
C24_Through(v) ==
    Str([j \in 1..Len(v.s) |-> IF v.s[j] = "%data%" THEN last.md.stem ELSE v.s[j]])

\* C24: a string rule value is keep-existing only if it is exactly "%wert%" and
\* force-empty only if it is exactly "=leer="; a string that contains either token
\* next to other text resolves to an ordinary string with the token text unchanged,
\* and that string is what the field is given.
C24_WholeValueSentinels ==
    (last.called /\ last.run = runs /\ last.stage \in {"built", "raised"}) =>
      \A i \in 1..Len(template) :
        LET v == template[i].v
            a == last.applied[i].v
        IN /\ v.t = "str" => (a = KEEP_EXISTING <=> v.s = KEEP_TOKEN)
           /\ (v.t = "str" /\ v.s = SENTINEL_EMPTY) => a = Str(<<>>)
           /\ C24_HoldsSentinel(v) =>
                /\ a = C24_Through(v)
                /\ last.stage = "built" =>
                     (HasKey(last.final_data, template[i].k)
                        /\ Get(last.final_data, template[i].k) = C24_Through(v))
           /\ v = ListMixed => (a.c # <<>> /\ a.c[1].v = Str(<<"%wert%", " x">>))

\* C24 witness: the document has A, the Rule Set gives A the string "%wert% x": the
\* output's A is that string, not the document's value
C24_Witness_Substring ==
    /\ last.called /\ last.stage = "built"
    /\ HasKey(ExistingRead, <<"A">>)
    /\ \E i \in 1..Len(template) :
         /\ template[i] = E(<<"A">>, Str(<<"%wert%", " x">>))
    /\ Get(last.final_data, <<"A">>) = Str(<<"%wert%", " x">>)
    /\ \E i \in 1..Len(template) :
         /\ template[i] = E(<<"B">>, Str(<<"=leer=", "%wert%">>))
    /\ Get(last.final_data, <<"B">>) = Str(<<"=leer=", "%wert%">>)

\* the elements of a sequence rule value that are not exactly "%wert%" or "=leer="
C25_Others(v) == SelectSeq(v.c, LAMBDA e : e.v # Wert /\ e.v # Leer)

\* C25: a sequence element whose rule value is exactly "%wert%" is dropped from the
\* output sequence: the sequence is never given an existing value in its place, no
\* marker stays in it, and the other elements keep their relative order.
C25_KeepExistingInSequence ==
    (last.called /\ last.run = runs /\ last.stage \in {"built", "raised"}) =>
      \A i \in 1..Len(template) :
        LET v == template[i].v
            a == last.applied[i].v
        IN (v.t = "list" /\ \A j \in 1..Len(v.c) : v.c[j].v.t \in {"str", "int", "bool"}) =>
             /\ a.t = "list"
             /\ Len(a.c) = Len(C25_Others(v))
             /\ \A j \in 1..Len(a.c) :
                  /\ a.c[j].v # KEEP_EXISTING
                  /\ a.c[j].v = (IF C25_Others(v)[j].v.t = "str"
                                 THEN C24_Through(C25_Others(v)[j].v) ELSE C25_Others(v)[j].v)
             /\ last.stage = "built" => Get(last.final_data, template[i].k) = a

\* C25 witness: the document has A; the Rule Set gives A the sequence x, "%wert%", y,
\* "%wert%"; the output's A is the sequence x, y
C25_Witness_TwoDropped ==
    /\ last.called /\ last.stage = "built"
    /\ HasKey(ExistingRead, <<"A">>)
    /\ \E i \in 1..Len(template) : template[i] = E(<<"A">>, ListWert)
    /\ Get(last.final_data, <<"A">>) = List(<<Lit("x"), Lit("y")>>)

\* the process of the latest run started its walk and is over: it printed the summary,
\* or a process_md call raised
C26_WalkEnded ==
    /\ runs > 0
    /\ \/ pc = "idle"
       \/ pc = "raised" /\ last.called /\ last.run = runs /\ last.ret = "raised"
\* the walk never reached the document although no filter skips it
C26_NeverReached(md) == ~Filtered(md) /\ log[md] = <<>>

\* C26 (as claimed): processing documents leaves the Rule Set and the Settings as they
\* were loaded, and the content every document has after a run does not depend on the
\* order in which the walk yields the documents: a document the walk did not reach is
\* one that a walk in another order would not have changed either.
C26_OrderIndependence ==
    /\ (pc = "walk" \/ C26_WalkEnded) =>
         /\ template = C19_RuleSetOfFirst
         /\ settings = from_cfg(C13_Ini.doc).settings
    /\ C26_WalkEnded =>
         \A md \in DOMAIN files :
           C26_NeverReached(md) => ~process_md(md, files[md]).wrote

\* a rule value made of integers, booleans and nulls only: such a scalar, or the
\* mapping or the sequence of such scalars
C27_NonString(v) ==
    \/ v.t \in {"int", "bool", "None"}
    \/ v \in {MapScalars, ListScalars}

\* C27 (as claimed): integers, booleans and nulls of the Rule Set pass through
\* apply_template unchanged, at top level, inside a nested mapping and as a sequence
\* element: the resolved output holds the same value at the same position.
C27_NonStringScalarsUnchanged ==
    (last.called /\ last.run = runs /\ last.stage \in {"built", "raised"}) =>
      \A i \in 1..Len(template) :
        C27_NonString(template[i].v) => last.applied[i].v = template[i].v

\* what one placeholder of a rule string stands for, once: the date, the stem, the
\* base directory's name, an upward level, a downward part; other text is itself
C28_Once(tok) ==
    CASE tok \in {"%datum%", "%date%"} -> last.date
      [] tok = "%data%" -> last.md.stem
      [] tok = "%folder%" -> C10_BaseName
      [] tok \in DOMAIN FOLDER_N_RE -> C11_Expected(tok)
      [] tok \in DOMAIN ROOT_N_RE -> C10_Expected(tok)
      [] OTHER -> tok

\* C28 (as claimed): every placeholder of a rule string is replaced once, and text
\* that a replacement inserted (a stem or a directory name of the form of a
\* placeholder) is not expanded again by a later step; other text is unchanged.
C28_SinglePass ==
    (last.called /\ last.run = runs /\ last.stage = "built") =>
      \A i \in 1..Len(template) :
        last.applied[i].v =
          Str(SelectSeq([j \in 1..Len(template[i].v.s) |-> C28_Once(template[i].v.s[j])],
                        LAMBDA x : x # ""))

\* C29 (as claimed): whatever the Rule Set, the final field mapping handed to
\* dump_frontmatter holds no keep-existing marker at any depth, and the serialization
\* does not fail on one.
C29_NoMarkerReachesDump ==
    (last.called /\ last.run = runs /\ last.stage # "skip") =>
      /\ \A i \in 1..Len(last.final_data) : ~HasMarker(last.final_data[i].v)
      /\ last.ret # "raised"
      /\ pc # "raised"

\* an exclude_folders pattern matches the name of a directory above the run root
C30_MatchAboveRoot ==
    \E i \in 1..(Len(root) - 1) : \E j \in 1..Len(settings.exclude_folders) :
       fnmatch(root[i], settings.exclude_folders[j])

\* C30 (as claimed): the excluded-folder rule skips a document only if a directory on
\* its path at or below the run root matches an exclude_folders pattern; the names of
\* the directories above the run root exclude nothing.
C30_ExclusionConfinedToTree ==
    /\ pc = "walk" =>
         \A md \in DOMAIN files :
           is_excluded(md, settings.exclude_folders) => C15_InExcludedSubtree(md)
    /\ C15_RunOver =>
         \A md \in DOMAIN files :
           log[md] = <<>> => (C15_InExcludedSubtree(md) \/ (C16_Active /\ ~C16_Selected(md)))
====
